---- MODULE Spec2Model ----
(***************************************************************************)
(* A model of the mClaw agentic runtime core: the cron scheduler, the      *)
(* heartbeat service and its notes, the agent loop with its session        *)
(* history and background summarization, the memory store and engine, the  *)
(* model switcher, the embedding encoding and the channel allow list.      *)
(* Each subsystem has its own specification (SpecCron, SpecHeartbeat,      *)
(* SpecAgent, SpecLoop, SpecStore, SpecEngine, SpecSwitcher, ...) over the *)
(* shared variables; a specification leaves the other subsystems'          *)
(* variables untouched.                                                    *)
(***************************************************************************)
EXTENDS Integers, Sequences, FiniteSets, TLC

VARIABLES
    \* ---- cron scheduler (pkg/cron) ----
    cronNow,        \* the clock, in ticks of the scheduler's resolution
    cronJobs,       \* store.Jobs: job id -> record, or NoJob
    cronNextId,     \* the next fresh job id
    cronInflight,   \* per-job atomic in-flight flag
    cronRunning,    \* per job: handler goroutines inside the handler
    cronOps,        \* CRUD calls made so far
    cronFired,      \* per job: dispatches so far                       (history)
    cronEnables,    \* per job: EnableJob(id, true) calls so far        (history)
    cronRemoved,    \* ids removed by RemoveJob                         (history)
    cronRemovedRunning, \* ids removed while their handler was running  (history)
    cronDoneAt,     \* per job: clock at the last handler completion    (history)
    cronSkipped,    \* ids a tick found due but still in flight         (history)
    cronLastDue,    \* per job: the due time of its last dispatch       (history)
    \* ---- heartbeat service (pkg/heartbeat) ----
    hbEnabled,      \* hs.enabled
    hbStopChan,     \* hs.stopChan: "nil", "open" or "closed"
    hbProcessing,   \* hs.processing (atomic.Bool)
    hbPc,           \* per caller of checkHeartbeat: its position
    hbCalls,        \* onHeartbeat invocations so far                   (history)
    hbSkipped,      \* checkHeartbeat calls skipped by the guard        (history)
    hbLastResult,   \* how the last onHeartbeat call ended              (history)
    \* ---- message bus (pkg/bus) ----
    busInbound,     \* the inbound queue: message ids in arrival order
    busNextMsg,     \* the id of the next inbound message
    busLimit,       \* how many inbound messages the channels deliver
    busOutbound,    \* per inbound message: outbound messages published for its turn
    msgBig,         \* inbound messages whose content is oversized
    \* ---- agent loop (pkg/agent/loop.go) ----
    alChannel,      \* msg.Channel of the session's messages
    alMaxIterations, \* al.maxIterations
    alContextWindow, \* al.contextWindow
    alPc,           \* position of Run / processMessage
    alMsg,          \* the message being processed (0: none)
    alIteration,    \* iteration
    alToolErrors,   \* consecutiveToolErrors
    alToolOnly,     \* consecutiveToolOnly
    alFinal,        \* finalContent
    alChatCalls,    \* provider.Chat calls made for the current message  (history)
    alResult,       \* per message: how its turn ended                   (history)
    alSummarizing,  \* al.summarizing holds the session key
    \* ---- session (pkg/session) ----
    sessHistory,    \* the session's history: a sequence of entries
    sessSummary,    \* the session's running summary
    sessPersisted,  \* the session as last saved
    sessAppended,   \* every entry ever appended to the history         (history)
    \* ---- summarizeSession goroutine ----
    sumPc,          \* position of the summarizeSession run
    sumValid,       \* validMessages
    sumSummary,     \* the summary read at the start
    sumOmitted,     \* omitted
    sumFinal,       \* finalSummary
    sumRead,        \* the history the run read                        (history)
    \* ---- memory store (pkg/memory, SQLite table memories) ----
    memItems,       \* the rows: memory id -> record, or NoMem
    memPending,     \* per id: access-count goroutines spawned by Search, not yet run
    memOps,         \* store calls made so far
    memLast,        \* the last store call and what it returned        (history)
    \* ---- memory engine (pkg/memory/engine.go) ----
    engProcessing,  \* e.processing: the users with a pipeline in flight
    engPc,          \* per goroutine: its position in ProcessConversation
    engUser,        \* per goroutine: userID
    engRun,         \* per goroutine: the number of its call               (history)
    engFacts,       \* per goroutine: facts still to process
    engEmb,         \* per goroutine: embedding of the current fact
    engSimilar,     \* per goroutine: ids of the similar memories found
    engCalls,       \* ProcessConversation calls made so far
    engWriter,      \* per user: the call that last wrote to the store     (history)
    engTurns,       \* per user: calls that have written to the store      (history)
    engLastExit,    \* how the last finished pipeline ended                (history)
    engSkipped,     \* calls that returned at the guard                    (history)
    engLast,        \* the last fact consolidated and what was decided    (history)
    \* ---- model switcher (pkg/agent/model_switcher.go) ----
    msFallbackModels, \* ms.fallbackModels
    msCreatable,    \* the models CreateProviderForModel(ms.cfg, .) succeeds for
    msCurrentModel, \* ms.currentModel
    msCurrentProvider, \* ms.currentProvider: the model it was created for
    msRateLimitDay, \* ms.rateLimitDay
    msNow,          \* time.Now(), in days since the first of January of some year
    msSwitchDate,   \* the date of the last switch since the last reset   (history)
    msPos,          \* successful switchToNext calls since the last reset (history)
    msLast,         \* the last Chat call                                 (history)
    \* ---- embedding BLOB encoding (memory store) ----
    encPc,          \* "input", "encoded" or "decoded"
    encIn,          \* the []float32 handed to encodeEmbedding
    encBlob,        \* the []byte encodeEmbedding returned
    encOut,         \* the []float32 decodeEmbedding returned
    \* ---- channel base (BaseChannel) ----
    chName,         \* c.name
    chAllowList,    \* c.allowList
    chInbound,      \* the bus's inbound queue, as this channel fills it
    chHandled,      \* HandleMessage calls made so far
    chLast,         \* the last HandleMessage call                        (history)
    \* ---- heartbeat notes (pkg/heartbeat, CRUD methods) ----
    hnLegacy,       \* whether a non-empty HEARTBEAT.md is in the workspace
    hnNotes,        \* hs.store.Notes
    hnFresh,        \* the store of a second instance created on the workspace
    hnAllSaved,     \* no write of the store file has failed so far       (history)
    hnFile,         \* the notes in heartbeat_notes.json
    hnNextId,       \* the next note id (ids come from the clock)
    hnOps,          \* CRUD calls made so far
    hnLast,         \* the last CRUD call: what it wrote and returned     (history)
    \* ---- processMessage, the working message list (pkg/agent/loop.go) ----
    tlMaxIterations, \* al.maxIterations
    tlCallLists,    \* the tool-call lists the provider's responses can carry
    tlPc,           \* "loop", or how processMessage returned: "done" or "error"
    tlIteration,    \* iteration
    tlToolErrors,   \* consecutiveToolErrors
    tlToolOnly,     \* consecutiveToolOnly
    tlMessages,     \* the messages the loop appended to the working list
    tlFinal,        \* finalContent
    tlLog,          \* per LLM call: what was offered, returned and executed (history)
    \* ---- HTTPProvider.parseStreamResponse (pkg/providers/types.go) ----
    psStream,       \* the tool-call fragments read from the stream so far (history)
    psMap,          \* toolCallMap: index -> partial tool call, or NoPartial
    psResponse,     \* LLMResponse.ToolCalls once the stream has ended, or NoResponseYet
    \* ---- Extractor.Extract (pkg/memory/extractor.go) ----
    exMessages,     \* len(messages) of the call
    exReply,        \* what the extraction LLM call yields
    exResult,       \* what Extract returned, or NotReturned
    \* ---- summarizeSession on a stored session (pkg/agent/loop.go) ----
    smCalls,        \* the run's LLM calls: whether all failed, and what it had read (history)
    \* ---- ProcessConversation, the guard (pkg/memory/engine.go) ----
    gdCall,         \* the last call: its user, goroutine and what the guard held (history)
    \* ---- ModelSwitcher.Chat, called from two goroutines ----
    ccCall,         \* per caller: where it is in Chat, the models it read, the outcomes
    \* ---- heartbeat service, Start / Stop / runLoop (pkg/heartbeat) ----
    tkEnabled,      \* hs.enabled
    tkChans,        \* the stop channels made so far: "open" or "closed"
    tkStopChan,     \* hs.stopChan: 0 for nil, else the channel's place in tkChans
    tkLoops,        \* the runLoop goroutines started so far: position, channel last read
    tkLast          \* the last Start or Stop call and what it found     (history)

cronVars == <<cronNow, cronJobs, cronNextId, cronInflight, cronRunning,
              cronOps, cronFired, cronEnables, cronRemoved, cronRemovedRunning, cronDoneAt,
              cronSkipped, cronLastDue>>
hbVars == <<hbEnabled, hbStopChan, hbProcessing, hbPc, hbCalls, hbSkipped, hbLastResult>>
busVars == <<busInbound, busNextMsg, busLimit, busOutbound, msgBig>>
alVars == <<alChannel, alMaxIterations, alContextWindow, alPc, alMsg, alIteration,
            alToolErrors, alToolOnly, alFinal, alChatCalls, alResult, alSummarizing>>
sessVars == <<sessHistory, sessSummary, sessPersisted, sessAppended>>
sumVars == <<sumPc, sumValid, sumSummary, sumOmitted, sumFinal, sumRead>>
agentVars == <<busVars, alVars, sessVars, sumVars>>
memVars == <<memItems, memPending, memOps, memLast>>
engVars == <<engProcessing, engPc, engUser, engRun, engFacts, engEmb, engSimilar,
             engCalls, engWriter, engTurns, engLastExit, engSkipped, engLast>>
msVars == <<msFallbackModels, msCreatable, msCurrentModel, msCurrentProvider,
            msRateLimitDay, msNow, msSwitchDate, msPos, msLast>>
encVars == <<encPc, encIn, encBlob, encOut>>
chVars == <<chName, chAllowList, chInbound, chHandled, chLast>>
hnVars == <<hnLegacy, hnNotes, hnFresh, hnAllSaved, hnFile, hnNextId, hnOps, hnLast>>
tlVars == <<tlMaxIterations, tlCallLists, tlPc, tlIteration, tlToolErrors, tlToolOnly,
            tlMessages, tlFinal, tlLog>>
psVars == <<psStream, psMap, psResponse>>
exVars == <<exMessages, exReply, exResult>>
smVars == <<smCalls>>
gdVars == <<gdCall>>
ccVars == <<ccCall>>
tkVars == <<tkEnabled, tkChans, tkStopChan, tkLoops, tkLast>>
auxVars == <<psVars, exVars, smVars, gdVars, ccVars, tkVars>>
extVars == <<memVars, engVars, msVars, encVars, chVars, hnVars, tlVars, auxVars>>
vars == <<cronVars, hbVars, agentVars, extVars>>

Null == -1

(***************************************************************************)
(* Cron scheduler                                                          *)
(***************************************************************************)
MaxJobs == 2
MaxTime == 2
MaxOps == 2
\* The schedule values AddJob is tried with: an interval (0 is rejected) or an
\* absolute time.
ScheduleValues == {0, 1, 2}

JobIds == 1..MaxJobs
NoJob == [kind |-> "none"]

CronJob(kind, ms, enabled, next, created) ==
    [kind |-> kind, ms |-> ms, enabled |-> enabled, next |-> next, created |-> created]

\* The next run of a schedule at clock now: Every -> now + interval, At -> the
\* absolute time (a past time is kept: it fires on the next tick).
computeNextRun(kind, ms, now) ==
    IF kind = "every" THEN now + ms ELSE ms

\* AddJob validates the schedule: Every.interval_ms > 0, any At time.
ValidSchedule(kind, ms) ==
    IF kind = "every" THEN ms > 0 ELSE ms >= 0

CronInit ==
    /\ cronNow = 0
    /\ cronJobs = [id \in JobIds |-> NoJob]
    /\ cronNextId = 1
    /\ cronInflight = [id \in JobIds |-> FALSE]
    /\ cronRunning = [id \in JobIds |-> 0]
    /\ cronOps = 0
    /\ cronFired = [id \in JobIds |-> 0]
    /\ cronEnables = [id \in JobIds |-> 0]
    /\ cronRemoved = {}
    /\ cronRemovedRunning = {}
    /\ cronDoneAt = [id \in JobIds |-> Null]
    /\ cronSkipped = {}
    /\ cronLastDue = [id \in JobIds |-> Null]

AddJob(kind, ms) ==
    /\ cronOps < MaxOps
    /\ cronNextId <= MaxJobs
    /\ IF ValidSchedule(kind, ms)
       THEN /\ cronJobs' = [cronJobs EXCEPT ![cronNextId] =
                               CronJob(kind, ms, TRUE, computeNextRun(kind, ms, cronNow), cronNow)]
            /\ cronNextId' = cronNextId + 1
       ELSE UNCHANGED <<cronJobs, cronNextId>>
    /\ cronOps' = cronOps + 1
    /\ UNCHANGED <<cronNow, cronInflight, cronRunning, cronFired,
                   cronEnables, cronRemoved, cronRemovedRunning, cronDoneAt,
                   cronSkipped, cronLastDue>>

RemoveJob(id) ==
    /\ cronOps < MaxOps
    /\ cronOps' = cronOps + 1
    /\ IF cronJobs[id] # NoJob
       THEN /\ cronJobs' = [cronJobs EXCEPT ![id] = NoJob]
            /\ cronRemoved' = cronRemoved \cup {id}
            /\ cronRemovedRunning' =
                  IF cronRunning[id] > 0 THEN cronRemovedRunning \cup {id}
                  ELSE cronRemovedRunning
       ELSE UNCHANGED <<cronJobs, cronRemoved, cronRemovedRunning>>
    /\ UNCHANGED <<cronNow, cronNextId, cronInflight, cronRunning,
                   cronFired, cronEnables, cronDoneAt, cronSkipped, cronLastDue>>

\* The job record after EnableJob(id, enabled): enabling recomputes the next run,
\* disabling clears it.
MutEnabledJob(job, enabled, now) ==
    [job EXCEPT !.enabled = enabled,
                !.next = IF enabled THEN computeNextRun(job.kind, job.ms, now) ELSE job.next]
EnabledJob(job, enabled, now) ==
    [job EXCEPT !.enabled = enabled,
                !.next = IF enabled THEN computeNextRun(job.kind, job.ms, now) ELSE Null]

EnableJob(id, enabled) ==
    /\ cronOps < MaxOps
    /\ cronOps' = cronOps + 1
    /\ IF cronJobs[id] # NoJob
       THEN /\ cronJobs' = [cronJobs EXCEPT ![id] = EnabledJob(cronJobs[id], enabled, cronNow)]
            /\ cronEnables' = IF enabled THEN [cronEnables EXCEPT ![id] = @ + 1]
                              ELSE cronEnables
       ELSE UNCHANGED <<cronJobs, cronEnables>>
    /\ UNCHANGED <<cronNow, cronNextId, cronInflight, cronRunning,
                   cronFired, cronRemoved, cronRemovedRunning, cronDoneAt,
                   cronSkipped, cronLastDue>>

\* ListJobs(include_disabled): the ids the store lists.
ListJobs(includeDisabled) ==
    {id \in JobIds : cronJobs[id] # NoJob /\ (includeDisabled \/ cronJobs[id].enabled)}

\* A job the tick dispatches: enabled, scheduled, and due.
IsDue(job, now) ==
    /\ job # NoJob
    /\ job.enabled
    /\ job.next # Null
    /\ job.next <= now

\* Compare-and-swap(false, true) on the in-flight flag: succeeds iff the flag is clear.
MutTryAcquire(flag) == TRUE
TryAcquire(flag) == ~flag

\* checkJobs: one scan over the store; every due job whose flag is acquired is
\* handed to an executor goroutine.
checkJobs ==
    LET started == {id \in JobIds : IsDue(cronJobs[id], cronNow) /\ TryAcquire(cronInflight[id])}
    IN /\ cronInflight' = [id \in JobIds |-> cronInflight[id] \/ id \in started]
       /\ cronRunning' = [id \in JobIds |->
                             IF id \in started THEN cronRunning[id] + 1 ELSE cronRunning[id]]
       /\ cronFired' = [id \in JobIds |->
                             IF id \in started THEN cronFired[id] + 1 ELSE cronFired[id]]
       /\ cronLastDue' = [id \in JobIds |->
                             IF id \in started THEN cronJobs[id].next ELSE cronLastDue[id]]
       /\ cronSkipped' = cronSkipped \cup
             {id \in JobIds : IsDue(cronJobs[id], cronNow) /\ cronInflight[id]}
       /\ UNCHANGED <<cronNow, cronJobs, cronNextId, cronOps, cronEnables,
                      cronRemoved, cronRemovedRunning, cronDoneAt>>

\* Post-execution rescheduling of a job record.
MutRescheduleAt(job, now) ==
    IF job.kind = "every" THEN [job EXCEPT !.next = now + job.ms]
    ELSE [job EXCEPT !.next = Null]
MutReschedule(job, now) ==
    IF job.kind = "every" THEN [job EXCEPT !.next = job.ms]
    ELSE [job EXCEPT !.next = Null, !.enabled = FALSE]
Reschedule(job, now) ==
    IF job.kind = "every" THEN [job EXCEPT !.next = now + job.ms]
    ELSE [job EXCEPT !.next = Null, !.enabled = FALSE]

\* The executor's trailing state update: a no-op when the id is gone from the store.
MutTrailingUpdate(jobs, id, now) ==
    [jobs EXCEPT ![id] =
        IF jobs[id] = NoJob THEN Reschedule(CronJob("every", 1, TRUE, Null, now), now)
        ELSE Reschedule(jobs[id], now)]
TrailingUpdate(jobs, id, now) ==
    IF jobs[id] = NoJob THEN jobs
    ELSE [jobs EXCEPT ![id] = Reschedule(jobs[id], now)]

\* The handler of job id returns; the executor updates the store under the mutex
\* and, in its terminating step, releases the in-flight flag.
HandlerDone(id) ==
    /\ cronRunning[id] > 0
    /\ cronRunning' = [cronRunning EXCEPT ![id] = @ - 1]
    /\ cronJobs' = TrailingUpdate(cronJobs, id, cronNow)
    /\ cronInflight' = [cronInflight EXCEPT ![id] = FALSE]
    /\ cronDoneAt' = [cronDoneAt EXCEPT ![id] = cronNow]
    /\ UNCHANGED <<cronNow, cronNextId, cronOps, cronFired, cronEnables,
                   cronRemoved, cronRemovedRunning, cronSkipped, cronLastDue>>

\* Time passes.
Advance ==
    /\ cronNow < MaxTime
    /\ cronNow' = cronNow + 1
    /\ UNCHANGED <<cronJobs, cronNextId, cronInflight, cronRunning, cronOps,
                   cronFired, cronEnables, cronRemoved, cronRemovedRunning, cronDoneAt,
                   cronSkipped, cronLastDue>>

CronNext ==
    \/ \E kind \in {"every", "at"}, ms \in ScheduleValues : AddJob(kind, ms)
    \/ \E id \in JobIds : RemoveJob(id)
    \/ \E id \in JobIds, enabled \in BOOLEAN : EnableJob(id, enabled)
    \/ checkJobs
    \/ \E id \in JobIds : HandlerDone(id)
    \/ Advance

(***************************************************************************)
(* Heartbeat service                                                       *)
(***************************************************************************)
HbCallers == 2
MaxHbChecks == 4

HbThreads == 1..HbCallers

HbInitWith(enabled) ==
    /\ hbEnabled \in enabled
    /\ hbStopChan = "nil"
    /\ hbProcessing = FALSE
    /\ hbPc = [t \in HbThreads |-> "idle"]
    /\ hbCalls = 0
    /\ hbSkipped = 0
    /\ hbLastResult = "none"

\* NewHeartbeatService: enabled or not, not started.
HbInit == HbInitWith(BOOLEAN)
HbIdle == HbInitWith({TRUE})

\* running(): the stop channel exists and is not closed.
running == hbStopChan = "open"

\* Start: no-op when running, an error when disabled, else a fresh stop channel.
Start ==
    /\ ~running
    /\ hbEnabled
    /\ hbStopChan' = "open"
    /\ UNCHANGED <<hbEnabled, hbProcessing, hbPc, hbCalls, hbSkipped, hbLastResult>>

\* Stop: closes the stop channel of a running service.
Stop ==
    /\ running
    /\ hbStopChan' = "closed"
    /\ UNCHANGED <<hbEnabled, hbProcessing, hbPc, hbCalls, hbSkipped, hbLastResult>>

\* processing.CompareAndSwap(false, true): succeeds iff the flag is clear.
MutCompareAndSwap(flag) == TRUE
CompareAndSwap(flag) == ~flag

\* checkHeartbeat, first part: return unless the service is enabled and running.
checkHeartbeat(t) ==
    /\ hbPc[t] = "idle"
    /\ hbCalls + hbSkipped < MaxHbChecks
    /\ hbEnabled /\ running
    /\ hbPc' = [hbPc EXCEPT ![t] = "cas"]
    /\ UNCHANGED <<hbEnabled, hbStopChan, hbProcessing, hbCalls, hbSkipped, hbLastResult>>

\* checkHeartbeat, the overlap guard: skip when a heartbeat is still processing,
\* else take the flag, build the prompt and call onHeartbeat.
checkHeartbeatGuard(t) ==
    /\ hbPc[t] = "cas"
    /\ IF CompareAndSwap(hbProcessing)
       THEN /\ hbProcessing' = TRUE
            /\ hbPc' = [hbPc EXCEPT ![t] = "handler"]
            /\ hbCalls' = hbCalls + 1
            /\ UNCHANGED hbSkipped
       ELSE /\ hbPc' = [hbPc EXCEPT ![t] = "idle"]
            /\ hbSkipped' = hbSkipped + 1
            /\ UNCHANGED <<hbProcessing, hbCalls>>
    /\ UNCHANGED <<hbEnabled, hbStopChan, hbLastResult>>

\* How an onHeartbeat call ends.
HandlerResults == {"ok", "error"}

\* onHeartbeat returns (with a result or an error); the outcome is logged and
\* the deferred Store(false) runs.
MutCheckHeartbeatReturn(t, result) ==
    /\ hbPc[t] = "handler"
    /\ hbProcessing' = (result = "error")
    /\ hbPc' = [hbPc EXCEPT ![t] = "idle"]
    /\ hbLastResult' = result
    /\ UNCHANGED <<hbEnabled, hbStopChan, hbCalls, hbSkipped>>
checkHeartbeatReturn(t, result) ==
    /\ hbPc[t] = "handler"
    /\ hbProcessing' = FALSE
    /\ hbPc' = [hbPc EXCEPT ![t] = "idle"]
    /\ hbLastResult' = result
    /\ UNCHANGED <<hbEnabled, hbStopChan, hbCalls, hbSkipped>>

HbNext ==
    \/ Start
    \/ Stop
    \/ \E t \in HbThreads : checkHeartbeat(t)
    \/ \E t \in HbThreads : checkHeartbeatGuard(t)
    \/ \E t \in HbThreads, result \in HandlerResults : checkHeartbeatReturn(t, result)

(***************************************************************************)
(* Message bus, session and agent loop                                     *)
(***************************************************************************)
MaxMsgs == 4
MaxErrors == 1
MaxBig == 1
AgentIters == 1
AgentWindow == 6
LoopMsgs == 1
LoopIters == 11
LoopWindow == 100
ChatMsgs == 2
ChatIters == 2

HistoryTrigger == 20
TriggerPercent == 75
KeepLast == 4
MultiPartMin == 10
maxConsecutiveErrors == 3
maxConsecutiveToolOnly == 10

Msgs == 1..MaxMsgs

\* History entries: the user message of turn m and the assistant reply of turn m.
UserEntry(m) == 2 * m - 1
AssistantEntry(m) == 2 * m
Entries == 1..(2 * MaxMsgs)
IsUserEntry(e) == e % 2 = 1
EntryMsg(e) == (e + 1) \div 2

Range(seq) == {seq[i] : i \in 1..Len(seq)}

\* A summary: whether it is a non-empty text, and the entries it covers.
NoSummary == [text |-> FALSE, covers |-> {}]
SummaryOf(entries) == [text |-> TRUE, covers |-> entries]

\* len(m.Content) / 4 of a history entry, in units of an ordinary message; an
\* oversized message is just above half of the context window.
BigTokens == alContextWindow \div 2 + 1
EntryTokens(e) == IF IsUserEntry(e) /\ EntryMsg(e) \in msgBig THEN BigTokens ELSE 1

RECURSIVE estimateTokens(_)
estimateTokens(messages) ==
    IF messages = <<>> THEN 0
    ELSE EntryTokens(Head(messages)) + estimateTokens(Tail(messages))

NoOutbound == [final |-> 0, thinking |-> 0]

AgentInit(limit, channel, iterations, window) ==
    /\ busInbound = <<>>
    /\ busNextMsg = 1
    /\ busLimit = limit
    /\ busOutbound = [m \in Msgs |-> NoOutbound]
    /\ msgBig = {}
    /\ alChannel \in channel
    /\ alMaxIterations \in iterations
    /\ alContextWindow = window
    /\ alPc = "idle"
    /\ alMsg = 0
    /\ alIteration = 0
    /\ alToolErrors = 0
    /\ alToolOnly = 0
    /\ alFinal = ""
    /\ alChatCalls = 0
    /\ alResult = [m \in Msgs |-> "none"]
    /\ alSummarizing = FALSE
    /\ sessHistory = <<>>
    /\ sessSummary = NoSummary
    /\ sessPersisted = [history |-> <<>>, summary |-> NoSummary]
    /\ sessAppended = {}
    /\ sumPc = "idle"
    /\ sumValid = <<>>
    /\ sumSummary = NoSummary
    /\ sumOmitted = FALSE
    /\ sumFinal = NoSummary
    /\ sumRead = <<>>

\* A channel's HandleMessage publishes the next inbound message on the bus.
PublishInbound(big) ==
    /\ busNextMsg <= busLimit
    /\ big => Cardinality(msgBig) < MaxBig
    /\ busInbound' = Append(busInbound, busNextMsg)
    /\ busNextMsg' = busNextMsg + 1
    /\ msgBig' = IF big THEN msgBig \cup {busNextMsg} ELSE msgBig
    /\ UNCHANGED <<busLimit, busOutbound, alVars, sessVars, sumVars>>

\* PublishOutbound of one message of the given kind for the turn of message m.
PublishOutbound(out, m, kind) ==
    [out EXCEPT ![m] = IF kind = "final" THEN [@ EXCEPT !.final = @ + 1]
                       ELSE [@ EXCEPT !.thinking = @ + 1]]

\* Session.AddMessage, TruncateHistory(n) and Save.
AddMessage(history, e) == Append(history, e)
MutTruncateHistory(history, n) ==
    IF Len(history) <= n THEN history ELSE SubSeq(history, 1, n)
TruncateHistory(history, n) ==
    IF Len(history) <= n THEN history
    ELSE SubSeq(history, Len(history) - n + 1, Len(history))
Saved == [history |-> sessHistory, summary |-> sessSummary]

\* Run: consume the next inbound message and enter processMessage.
Run ==
    /\ alPc = "idle"
    /\ busInbound # <<>>
    /\ alMsg' = Head(busInbound)
    /\ busInbound' = Tail(busInbound)
    /\ alPc' = "llm"
    /\ alIteration' = 0
    /\ alToolErrors' = 0
    /\ alToolOnly' = 0
    /\ alFinal' = ""
    /\ alChatCalls' = 0
    /\ UNCHANGED <<busNextMsg, busLimit, busOutbound, msgBig, alChannel, alMaxIterations,
                   alContextWindow, alResult, alSummarizing, sessVars, sumVars>>

\* Run publishes the response of the turn when it is not empty.
MutPublishResponse(out, m, response) ==
    IF response # "" THEN PublishOutbound(PublishOutbound(out, m, "final"), m, "final") ELSE out
PublishResponse(out, m, response) ==
    IF response # "" THEN PublishOutbound(out, m, "final") ELSE out

\* formatErrorForUser: every branch yields a non-empty string.
formatErrorForUser(err) == "error: " \o err

\* The thinking preview of a response, sent unless the channel is the CLI.
PublishThinking(out, m, thinking) ==
    IF thinking /\ alChannel # "cli" THEN PublishOutbound(out, m, "thinking") ELSE out

\* The loop condition of processMessage.
MutLoopContinues(iteration) == TRUE
LoopContinues(iteration) == iteration < alMaxIterations

\* processMessage, one iteration whose LLM call fails: the error is returned, Run
\* formats and publishes it; nothing is appended to the session.
MutIterateError ==
    /\ alPc = "llm"
    /\ LoopContinues(alIteration)
    /\ Cardinality({m \in Msgs : alResult[m] = "error"}) < MaxErrors
    /\ alIteration' = alIteration + 1
    /\ alChatCalls' = alChatCalls + 1
    /\ alResult' = [alResult EXCEPT ![alMsg] = "error"]
    /\ alPc' = "addUser"
    /\ UNCHANGED <<busVars, alChannel, alMaxIterations,
                   alContextWindow, alMsg, alToolErrors, alToolOnly, alFinal, alSummarizing,
                   sessVars, sumVars>>
IterateError ==
    /\ alPc = "llm"
    /\ LoopContinues(alIteration)
    /\ Cardinality({m \in Msgs : alResult[m] = "error"}) < MaxErrors
    /\ alIteration' = alIteration + 1
    /\ alChatCalls' = alChatCalls + 1
    /\ alResult' = [alResult EXCEPT ![alMsg] = "error"]
    /\ busOutbound' = PublishResponse(busOutbound, alMsg, formatErrorForUser("LLM call failed"))
    /\ alPc' = "idle"
    /\ UNCHANGED <<busInbound, busNextMsg, busLimit, msgBig, alChannel, alMaxIterations,
                   alContextWindow, alMsg, alToolErrors, alToolOnly, alFinal, alSummarizing,
                   sessVars, sumVars>>

\* processMessage, one iteration whose LLM call succeeds.  The response has a
\* thinking trace or not, text content or not, and no tool calls, tool calls that
\* all fail ("fail") or tool calls of which one succeeds ("ok").
Iterate(thinking, content, tools) ==
    /\ alPc = "llm"
    /\ LoopContinues(alIteration)
    /\ alIteration' = alIteration + 1
    /\ alChatCalls' = alChatCalls + 1
    /\ busOutbound' = PublishThinking(busOutbound, alMsg, thinking)
    /\ LET toolOnly == IF content THEN 0 ELSE alToolOnly + 1
       IN IF tools = "none"
          THEN /\ alFinal' = IF content THEN "text" ELSE ""
               /\ alPc' = "addUser"
               /\ UNCHANGED <<alToolErrors, alToolOnly>>
          ELSE IF toolOnly >= maxConsecutiveToolOnly
          THEN /\ alToolOnly' = toolOnly
               /\ alFinal' = IF content THEN "text" ELSE "difficulties"
               /\ alPc' = "addUser"
               /\ UNCHANGED alToolErrors
          ELSE /\ alToolOnly' = toolOnly
               /\ alToolErrors' = IF tools = "fail" THEN alToolErrors + 1 ELSE 0
               /\ UNCHANGED <<alFinal, alPc>>
    /\ UNCHANGED <<busInbound, busNextMsg, busLimit, msgBig, alChannel, alMaxIterations,
                   alContextWindow, alMsg, alResult, alSummarizing, sessVars, sumVars>>

\* processMessage: the loop ends because the iteration bound is reached.
LoopExit ==
    /\ alPc = "llm"
    /\ ~LoopContinues(alIteration)
    /\ alPc' = "addUser"
    /\ UNCHANGED <<busVars, alChannel, alMaxIterations, alContextWindow, alMsg, alIteration,
                   alToolErrors, alToolOnly, alFinal, alChatCalls, alResult, alSummarizing,
                   sessVars, sumVars>>

\* finalContent after the empty-response default.
finalContent == IF alFinal = "" THEN "noresponse" ELSE alFinal

\* processMessage: sessions.AddMessage(key, "user", msg.Content).
AddUserMessage ==
    /\ alPc = "addUser"
    /\ sessHistory' = AddMessage(sessHistory, UserEntry(alMsg))
    /\ sessAppended' = sessAppended \cup {UserEntry(alMsg)}
    /\ alPc' = "addAssistant"
    /\ UNCHANGED <<busVars, alChannel, alMaxIterations, alContextWindow, alMsg, alIteration,
                   alToolErrors, alToolOnly, alFinal, alChatCalls, alResult, alSummarizing,
                   sessSummary, sessPersisted, sumVars>>

\* processMessage: sessions.AddMessage(key, "assistant", finalContent).
AddAssistantMessage ==
    /\ alPc = "addAssistant"
    /\ sessHistory' = AddMessage(sessHistory, AssistantEntry(alMsg))
    /\ sessAppended' = sessAppended \cup {AssistantEntry(alMsg)}
    /\ alPc' = "compress"
    /\ UNCHANGED <<busVars, alChannel, alMaxIterations, alContextWindow, alMsg, alIteration,
                   alToolErrors, alToolOnly, alFinal, alChatCalls, alResult, alSummarizing,
                   sessSummary, sessPersisted, sumVars>>

\* The compression trigger: more than 20 messages, or estimated tokens above 75%
\* of the context window.
CompressionDue(history) ==
    \/ Len(history) > HistoryTrigger
    \/ estimateTokens(history) > (alContextWindow * TriggerPercent) \div 100

\* processMessage: evaluate the trigger and start summarizeSession unless one is
\* already in progress for the session (summarizing.LoadOrStore).
MutCompress ==
    /\ alPc = "compress"
    /\ IF CompressionDue(sessHistory)
       THEN /\ alSummarizing' = TRUE
            /\ sumPc' = "start"
       ELSE UNCHANGED <<alSummarizing, sumPc>>
    /\ alPc' = "save"
    /\ UNCHANGED <<busVars, alChannel, alMaxIterations, alContextWindow, alMsg, alIteration,
                   alToolErrors, alToolOnly, alFinal, alChatCalls, alResult,
                   sessVars, sumValid, sumSummary, sumOmitted, sumFinal, sumRead>>

Compress ==
    /\ alPc = "compress"
    /\ IF CompressionDue(sessHistory) /\ ~alSummarizing
       THEN /\ alSummarizing' = TRUE
            /\ sumPc' = "start"
       ELSE UNCHANGED <<alSummarizing, sumPc>>
    /\ alPc' = "save"
    /\ UNCHANGED <<busVars, alChannel, alMaxIterations, alContextWindow, alMsg, alIteration,
                   alToolErrors, alToolOnly, alFinal, alChatCalls, alResult,
                   sessVars, sumValid, sumSummary, sumOmitted, sumFinal, sumRead>>

\* processMessage saves the session and returns finalContent; Run publishes it.
SaveAndRespond ==
    /\ alPc = "save"
    /\ sessPersisted' = Saved
    /\ alResult' = [alResult EXCEPT ![alMsg] = "text"]
    /\ busOutbound' = PublishResponse(busOutbound, alMsg, finalContent)
    /\ alPc' = "idle"
    /\ UNCHANGED <<busInbound, busNextMsg, busLimit, msgBig, alChannel, alMaxIterations,
                   alContextWindow, alMsg, alIteration, alToolErrors, alToolOnly, alFinal,
                   alChatCalls, alSummarizing, sessHistory, sessSummary, sessAppended,
                   sumVars>>

\* The messages of a summarization target that are not oversized.
RECURSIVE ValidMessages(_)
ValidMessages(messages) ==
    IF messages = <<>> THEN <<>>
    ELSE IF EntryTokens(Head(messages)) > alContextWindow \div 2
         THEN ValidMessages(Tail(messages))
         ELSE <<Head(messages)>> \o ValidMessages(Tail(messages))

\* summarizeSession ends: the deferred summarizing.Delete runs.
SumReturn ==
    /\ sumPc' = "idle"
    /\ alSummarizing' = FALSE
    /\ sumValid' = <<>>
    /\ sumSummary' = NoSummary
    /\ sumOmitted' = FALSE
    /\ sumFinal' = NoSummary
    /\ sumRead' = <<>>

\* summarizeSession reads history and summary; it returns when there are at most
\* 4 messages or nothing valid to summarize.
SummarizationTarget(history) == SubSeq(history, 1, Len(history) - KeepLast)

summarizeSession ==
    /\ sumPc = "start"
    /\ IF Len(sessHistory) <= KeepLast
       THEN SumReturn
       ELSE LET toSummarize == SummarizationTarget(sessHistory)
                valid == ValidMessages(toSummarize)
            IN IF valid = <<>>
               THEN SumReturn
               ELSE /\ sumPc' = "llm"
                    /\ sumValid' = valid
                    /\ sumSummary' = sessSummary
                    /\ sumOmitted' = (Len(valid) < Len(toSummarize))
                    /\ sumRead' = sessHistory
                    /\ UNCHANGED <<alSummarizing, sumFinal>>
    /\ UNCHANGED <<busVars, alChannel, alMaxIterations, alContextWindow, alPc, alMsg,
                   alIteration, alToolErrors, alToolOnly, alFinal, alChatCalls, alResult,
                   sessVars>>

\* summarizeBatch: the text the LLM returns for a batch given an existing
\* summary, or the empty string when the call fails.
summarizeBatch(batch, existing, ok) ==
    IF ok THEN SummaryOf(Range(batch) \cup existing.covers) ELSE NoSummary

\* The merge of two partial summaries: the text of the LLM's merge ("text"),
\* which may be empty ("empty"), or when the merge call fails ("error")
\* s1 + " " + s2, which is never the empty string.
MergeSummaries(s1, s2, merge) ==
    IF merge = "empty" THEN NoSummary ELSE SummaryOf(s1.covers \cup s2.covers)

\* summarizeSession: the LLM calls.  More than 10 valid messages are summarized
\* in two halves, without the existing summary, and merged; fewer in one pass
\* with the existing summary as context.
summarizeLLM(ok1, ok2, merge) ==
    /\ sumPc = "llm"
    /\ LET mid == Len(sumValid) \div 2
           final ==
             IF Len(sumValid) > MultiPartMin
             THEN MergeSummaries(
                     summarizeBatch(SubSeq(sumValid, 1, mid), NoSummary, ok1),
                     summarizeBatch(SubSeq(sumValid, mid + 1, Len(sumValid)), NoSummary, ok2),
                     merge)
             ELSE summarizeBatch(sumValid, sumSummary, ok1)
       IN IF final.text
          THEN /\ sumFinal' = final
               /\ sumPc' = "set"
               /\ UNCHANGED <<alSummarizing, sumValid, sumSummary, sumOmitted, sumRead>>
          ELSE SumReturn
    /\ UNCHANGED <<busVars, alChannel, alMaxIterations, alContextWindow, alPc, alMsg,
                   alIteration, alToolErrors, alToolOnly, alFinal, alChatCalls, alResult,
                   sessVars>>

\* summarizeSession: sessions.SetSummary(key, finalSummary).
SetSummary ==
    /\ sumPc = "set"
    /\ sessSummary' = sumFinal
    /\ sumPc' = "truncate"
    /\ UNCHANGED <<busVars, alVars, sessHistory, sessPersisted, sessAppended,
                   sumValid, sumSummary, sumOmitted, sumFinal, sumRead>>

\* summarizeSession: sessions.TruncateHistory(key, 4).
SumTruncate ==
    /\ sumPc = "truncate"
    /\ sessHistory' = TruncateHistory(sessHistory, KeepLast)
    /\ sumPc' = "save"
    /\ UNCHANGED <<busVars, alVars, sessSummary, sessPersisted, sessAppended,
                   sumValid, sumSummary, sumOmitted, sumFinal, sumRead>>

\* summarizeSession: sessions.Save, then return.
SumSave ==
    /\ sumPc = "save"
    /\ sessPersisted' = Saved
    /\ SumReturn
    /\ UNCHANGED <<busVars, alChannel, alMaxIterations, alContextWindow, alPc, alMsg,
                   alIteration, alToolErrors, alToolOnly, alFinal, alChatCalls, alResult,
                   sessHistory, sessSummary, sessAppended>>

\* The steps of Run and processMessage.
LoopNext ==
    \/ \E big \in BOOLEAN : PublishInbound(big)
    \/ Run
    \/ IterateError
    \/ \E thinking \in BOOLEAN, content \in BOOLEAN, tools \in {"none", "fail", "ok"} :
          Iterate(thinking, content, tools)
    \/ LoopExit
    \/ AddUserMessage
    \/ AddAssistantMessage
    \/ Compress
    \/ SaveAndRespond

\* The steps of the summarizeSession goroutine.
SumNext ==
    \/ summarizeSession
    \/ \E ok1 \in BOOLEAN, ok2 \in BOOLEAN, merge \in {"text", "empty", "error"} :
          summarizeLLM(ok1, ok2, merge)
    \/ SetSummary
    \/ SumTruncate
    \/ SumSave

AgentNext == LoopNext \/ SumNext

(***************************************************************************)
(* Memory store                                                            *)
(***************************************************************************)
MaxMems == 2
MaxMemOps == 3
MaxAccess == 2

MemIds == 1..MaxMems
MemUsers == {"u1", "u2"}
NoMem == [user |-> "none"]

\* Embeddings: nil (stored as a NULL blob) or a vector of two components.
NilEmbedding == <<>>
Vectors == {<<1, 0>>, <<0, 1>>}
Embeddings == Vectors \cup {NilEmbedding}
Queries == {<<1, 0>>, <<1, 1>>}
\* Importance scores, in hundredths: 0.95 and 1.0.
Scores == {95, 100}

MemoryItem(user, emb, score) ==
    [user |-> user, category |-> "", emb |-> emb, score |-> score, access |-> 0,
     deleted |-> FALSE]

\* The rows a query with "user_id = ? AND deleted = 0" selects.
ActiveOf(items, user) ==
    {id \in MemIds : items[id] # NoMem /\ items[id].user = user /\ ~items[id].deleted}

RECURSIVE Dot(_, _)
Dot(a, b) == IF a = <<>> THEN 0 ELSE Head(a) * Head(b) + Dot(Tail(a), Tail(b))

\* CosineSimilarity, kept exact as the signed square of the cosine, a fraction
\* num/den: 0 for vectors of different or zero length or of zero norm.
Zero == [num |-> 0, den |-> 1]
CosineSimilarity(a, b) ==
    IF Len(a) # Len(b) \/ Len(a) = 0 THEN Zero
    ELSE LET dotProduct == Dot(a, b)
             normA == Dot(a, a)
             normB == Dot(b, b)
         IN IF normA = 0 \/ normB = 0 THEN Zero
            ELSE [num |-> IF dotProduct >= 0 THEN dotProduct * dotProduct
                          ELSE 0 - dotProduct * dotProduct,
                  den |-> normA * normB]
SimGE(x, y) == x.num * y.den >= y.num * x.den

\* The minScore values Search is called with: 0.0 and 0.5 (as signed squares).
MinScores == {Zero, [num |-> 1, den |-> 4]}
TopKs == {1, 2}

\* The tables NewMemoryStore can open: a new database, or one left by an
\* earlier run with a memory that has been recalled once.
EmptyTable == [id \in MemIds |-> NoMem]
StoreTables ==
    {EmptyTable,
     [EmptyTable EXCEPT ![1] = [MemoryItem("u1", <<1, 0>>, 95) EXCEPT !.access = 1]]}

MemInitWith(tables) ==
    /\ memItems \in tables
    /\ memPending = [id \in MemIds |-> 0]
    /\ memOps = 0
    /\ memLast = [op |-> "none"]

MemInit == MemInitWith({EmptyTable})

\* Add: INSERT of a row under the given id (a fresh UUID, or the id the caller
\* set); the primary key rejects an id that is already in the table.
StoreAdd(items, id, item, dbOk) ==
    IF dbOk /\ items[id] = NoMem
    THEN [items |-> [items EXCEPT ![id] = item], err |-> FALSE]
    ELSE [items |-> items, err |-> TRUE]

\* Update: UPDATE ... WHERE id = ? AND deleted = 0; no row affected is an error.
MutStoreUpdate(items, id, emb, dbOk) ==
    IF ~dbOk THEN [items |-> items, err |-> TRUE]
    ELSE IF items[id] = NoMem
    THEN [items |-> items, err |-> TRUE]
    ELSE [items |-> [items EXCEPT ![id].emb = emb, ![id].deleted = FALSE], err |-> FALSE]
StoreUpdate(items, id, emb, dbOk) ==
    IF ~dbOk THEN [items |-> items, err |-> TRUE]
    ELSE IF items[id] = NoMem \/ items[id].deleted
    THEN [items |-> items, err |-> TRUE]
    ELSE [items |-> [items EXCEPT ![id].emb = emb], err |-> FALSE]

\* Delete: UPDATE ... SET deleted = 1 WHERE id = ?; an unknown id is no error.
StoreDelete(items, id, dbOk) ==
    IF ~dbOk THEN [items |-> items, err |-> TRUE]
    ELSE IF items[id] = NoMem THEN [items |-> items, err |-> FALSE]
    ELSE [items |-> [items EXCEPT ![id].deleted = TRUE], err |-> FALSE]

\* The rows Search scans: the user's active rows with a non-NULL embedding.
MutSearchRows(items, user) ==
    {id \in MemIds : items[id] # NoMem /\ ~items[id].deleted /\ items[id].emb # NilEmbedding}
SearchRows(items, user) ==
    {id \in ActiveOf(items, user) : items[id].emb # NilEmbedding}

\* The result sets Search can return: the rows at least minScore similar to the
\* query, ordered by similarity and cut to topK (the sort is not stable, so
\* rows of equal similarity may be cut either way).
SearchResults(items, query, user, topK, minScore) ==
    LET sim(id) == CosineSimilarity(query, items[id].emb)
        cand == {id \in SearchRows(items, user) : SimGE(sim(id), minScore)}
        size == IF Cardinality(cand) > topK THEN topK ELSE Cardinality(cand)
    IN {r \in SUBSET cand :
           /\ Cardinality(r) = size
           /\ \A in \in r, out \in cand \ r : SimGE(sim(in), sim(out))}

\* score * (1 + 0.1 * access_cnt), times 1000.
PruneValue(item) == item.score * (10 + item.access)

\* The sets of rows Prune can delete: the count - maxItems rows of the user of
\* lowest value (rows of equal value may be taken either way).
MutPruneVictims(items, user, maxItems) ==
    LET active == ActiveOf(items, user)
        toDelete == Cardinality(active) - maxItems
    IN IF Cardinality(active) <= maxItems THEN {{}}
       ELSE {d \in SUBSET active :
                /\ Cardinality(d) = toDelete
                /\ \A in \in d, out \in active \ d :
                      PruneValue(items[in]) >= PruneValue(items[out])}
PruneVictims(items, user, maxItems) ==
    LET active == ActiveOf(items, user)
        toDelete == Cardinality(active) - maxItems
    IN IF Cardinality(active) <= maxItems THEN {{}}
       ELSE {d \in SUBSET active :
                /\ Cardinality(d) = toDelete
                /\ \A in \in d, out \in active \ d :
                      PruneValue(items[in]) <= PruneValue(items[out])}
StorePrune(items, victims) ==
    [id \in MemIds |-> IF id \in victims THEN [items[id] EXCEPT !.deleted = TRUE]
                       ELSE items[id]]

\* The ids Add is tried with: the fresh UUID Add generates for an item without
\* id (rows are never removed from the table, so ids are handed out in order), or
\* an id the caller set that is already in the table.
AddIds(items) ==
    {id \in MemIds : items[id] # NoMem \/ \A other \in 1..(id - 1) : items[other] # NoMem}

\* One call of the store counts against the budget of the run.
MemCall == memOps < MaxMemOps /\ memOps' = memOps + 1

Add(id, user, emb, score, dbOk) ==
    /\ MemCall
    /\ LET r == StoreAdd(memItems, id, MemoryItem(user, emb, score), dbOk)
       IN /\ memItems' = r.items
          /\ memLast' = [op |-> "add", id |-> id, user |-> user, err |-> r.err]
    /\ UNCHANGED memPending

Update(id, emb, dbOk) ==
    /\ MemCall
    /\ LET r == StoreUpdate(memItems, id, emb, dbOk)
       IN /\ memItems' = r.items
          /\ memLast' = [op |-> "update", id |-> id, err |-> r.err,
                         wasDeleted |-> memItems[id] # NoMem /\ memItems[id].deleted]
    /\ UNCHANGED memPending

Delete(id, dbOk) ==
    /\ MemCall
    /\ LET r == StoreDelete(memItems, id, dbOk)
       IN /\ memItems' = r.items
          /\ memLast' = [op |-> "delete", id |-> id, err |-> r.err]
    /\ UNCHANGED memPending

\* Search returns its results and spawns one goroutine per result that will
\* increment access_cnt.
Search(query, user, topK, minScore) ==
    /\ MemCall
    /\ \E r \in SearchResults(memItems, query, user, topK, minScore) :
          /\ memPending' = [id \in MemIds |-> IF id \in r THEN memPending[id] + 1
                                              ELSE memPending[id]]
          /\ memLast' = [op |-> "search", user |-> user, ids |-> r]
    /\ UNCHANGED memItems

\* The goroutine of Search: UPDATE ... SET access_cnt = access_cnt + 1 WHERE id = ?.
IncrementAccess(id) ==
    /\ memPending[id] > 0
    /\ memPending' = [memPending EXCEPT ![id] = @ - 1]
    /\ memItems' = IF memItems[id] # NoMem /\ memItems[id].access < MaxAccess
                   THEN [memItems EXCEPT ![id].access = @ + 1]
                   ELSE memItems
    /\ UNCHANGED <<memOps, memLast>>

GetByUser(user) ==
    /\ MemCall
    /\ memLast' = [op |-> "getByUser", user |-> user, ids |-> ActiveOf(memItems, user)]
    /\ UNCHANGED <<memItems, memPending>>

GetStats(user) ==
    /\ MemCall
    /\ memLast' = [op |-> "getStats", user |-> user,
                   total |-> Cardinality(ActiveOf(memItems, user))]
    /\ UNCHANGED <<memItems, memPending>>

Prune(user, maxItems) ==
    /\ MemCall
    /\ \E victims \in PruneVictims(memItems, user, maxItems) :
          /\ memItems' = StorePrune(memItems, victims)
          /\ memLast' = [op |-> "prune", user |-> user, maxItems |-> maxItems,
                         count |-> Cardinality(ActiveOf(memItems, user)),
                         deleted |-> Cardinality(victims)]
    /\ UNCHANGED memPending

MaxItemsValues == 0..MaxMems

StoreNext ==
    \/ \E id \in AddIds(memItems), user \in MemUsers, emb \in Embeddings, score \in Scores,
          dbOk \in BOOLEAN : Add(id, user, emb, score, dbOk)
    \/ \E id \in MemIds, emb \in Embeddings, dbOk \in BOOLEAN : Update(id, emb, dbOk)
    \/ \E id \in MemIds, dbOk \in BOOLEAN : Delete(id, dbOk)
    \/ \E query \in Queries, user \in MemUsers, topK \in TopKs, minScore \in MinScores :
          Search(query, user, topK, minScore)
    \/ \E id \in MemIds : IncrementAccess(id)
    \/ \E user \in MemUsers : GetByUser(user)
    \/ \E user \in MemUsers : GetStats(user)
    \/ \E user \in MemUsers, maxItems \in MaxItemsValues : Prune(user, maxItems)


(***************************************************************************)
(* Memory engine: the write pipeline                                       *)
(***************************************************************************)
MaxEngCalls == 3
FactCalls == 2
MaxMemories == 1

\* The goroutines the agent loop detaches to run ProcessConversation.
EngThreads == {"g1", "g2"}
\* What the extractor and the embedder yield: how many facts, the embedding and
\* the importance of a fact, and the embedding of a merged content.
FactCounts == {0, 1}
FactVectors == {<<1, 0>>}
FactScores == {100}
FactCategories == {"preference"}
\* ExtractedFact: the category and the importance of a fact.
ExtractedFact(category, importance) == [Category |-> category, Importance |-> importance]
ExtractedFacts == {ExtractedFact(c, i) : c \in FactCategories, i \in FactScores}
\* result.TargetID == "": the consolidator names no target.
NoTargetID == 0
\* What the consolidation LLM call yields: a valid action, a reply that does not
\* parse or names no valid action ("unknown"), or a failed call ("error"); with
\* UPDATE and DELETE, the target id the reply names or none, and with UPDATE
\* whether it carries a merged content.
ConsolidateReplies ==
    ({"ADD", "NOOP", "unknown", "error"} \X {NoTargetID} \X {FALSE})
       \cup ({"UPDATE"} \X (MemIds \cup {NoTargetID}) \X BOOLEAN)
       \cup ({"DELETE"} \X (MemIds \cup {NoTargetID}) \X {FALSE})
\* The replies the pipeline runs are fed: the complete ones.
PipelineReplies == {reply \in ConsolidateReplies : reply[1] = "UPDATE" => reply[3]}
MergedVectors == {<<0, 1>>}
\* The similarity search of processFact: the 3 nearest at 0.5 or above.
ConsolidateTopK == 3
ConsolidateMinScore == [num |-> 1, den |-> 4]
NoDecision == [action |-> "none"]

EngInit ==
    /\ engProcessing = {}
    /\ engPc = [t \in EngThreads |-> "idle"]
    /\ engUser = [t \in EngThreads |-> "none"]
    /\ engRun = [t \in EngThreads |-> 0]
    /\ engFacts = [t \in EngThreads |-> 0]
    /\ engEmb = [t \in EngThreads |-> NilEmbedding]
    /\ engSimilar = [t \in EngThreads |-> {}]
    /\ engCalls = 0
    /\ engWriter = [u \in MemUsers |-> 0]
    /\ engTurns = [u \in MemUsers |-> 0]
    /\ engLastExit = "none"
    /\ engSkipped = 0
    /\ engLast = NoDecision

\* processing.LoadOrStore(userID, true): loaded reports that the key was there.
MutLoadOrStore(processing, user) == [loaded |-> FALSE, processing |-> processing \cup {user}]
LoadOrStore(processing, user) ==
    [loaded |-> user \in processing, processing |-> processing \cup {user}]

\* ProcessConversation returns: the deferred processing.Delete(userID) runs.
MutEngReturn(t, exit) ==
    /\ engProcessing' = IF exit = "done" THEN engProcessing \ {engUser[t]} ELSE engProcessing
    /\ engPc' = [engPc EXCEPT ![t] = "idle"]
    /\ engUser' = [engUser EXCEPT ![t] = "none"]
    /\ engRun' = [engRun EXCEPT ![t] = 0]
    /\ engLastExit' = exit
EngReturn(t, exit) ==
    /\ engProcessing' = engProcessing \ {engUser[t]}
    /\ engPc' = [engPc EXCEPT ![t] = "idle"]
    /\ engUser' = [engUser EXCEPT ![t] = "none"]
    /\ engRun' = [engRun EXCEPT ![t] = 0]
    /\ engLastExit' = exit

\* A store write of the pipeline of goroutine t is recorded for its user.
EngWrote(t) ==
    /\ engWriter' = [engWriter EXCEPT ![engUser[t]] = engRun[t]]
    /\ engTurns' = [engTurns EXCEPT ![engUser[t]] =
                       IF engWriter[engUser[t]] = engRun[t] THEN @ ELSE @ + 1]

\* ProcessConversation is called: the guard.
ProcessConversation(t, user) ==
    /\ engPc[t] = "idle"
    /\ engCalls < MaxEngCalls
    /\ engCalls' = engCalls + 1
    /\ LET r == LoadOrStore(engProcessing, user)
       IN IF r.loaded
          THEN /\ engSkipped' = engSkipped + 1
               /\ UNCHANGED <<engProcessing, engPc, engUser, engRun>>
          ELSE /\ engProcessing' = r.processing
               /\ engPc' = [engPc EXCEPT ![t] = "extract"]
               /\ engUser' = [engUser EXCEPT ![t] = user]
               /\ engRun' = [engRun EXCEPT ![t] = engCalls + 1]
               /\ UNCHANGED engSkipped
    /\ UNCHANGED <<engFacts, engEmb, engSimilar, engWriter, engTurns, engLastExit, engLast, memVars>>

\* Step 1: extractor.Extract fails, or yields a number of facts.
Extract(t, ok, facts) ==
    /\ engPc[t] = "extract"
    /\ IF ~ok THEN EngReturn(t, "extractError") /\ UNCHANGED engFacts
       ELSE IF facts = 0 THEN EngReturn(t, "noFacts") /\ UNCHANGED engFacts
       ELSE /\ engPc' = [engPc EXCEPT ![t] = "fact"]
            /\ engFacts' = [engFacts EXCEPT ![t] = facts]
            /\ UNCHANGED <<engProcessing, engUser, engRun, engLastExit>>
    /\ UNCHANGED <<engEmb, engSimilar, engCalls, engWriter, engTurns, engSkipped, engLast, memVars>>

\* The loop of step 2 moves to the next fact, or to step 3.
EngNextFact(t) ==
    /\ engFacts' = [engFacts EXCEPT ![t] = @ - 1]
    /\ engPc' = [engPc EXCEPT ![t] = IF engFacts[t] > 1 THEN "fact" ELSE "prune"]
    /\ engSimilar' = [engSimilar EXCEPT ![t] = {}]
    /\ engEmb' = [engEmb EXCEPT ![t] = NilEmbedding]

\* processFact: embed the fact and search the user's similar memories.
ProcessFactSearch(t, emb, ok) ==
    /\ engPc[t] = "fact"
    /\ IF ~ok
       THEN /\ EngNextFact(t)
            /\ UNCHANGED memPending
       ELSE \E r \in SearchResults(memItems, emb, engUser[t], ConsolidateTopK,
                                   ConsolidateMinScore) :
               /\ memPending' = [id \in MemIds |-> IF id \in r THEN memPending[id] + 1
                                                   ELSE memPending[id]]
               /\ engSimilar' = [engSimilar EXCEPT ![t] = r]
               /\ engEmb' = [engEmb EXCEPT ![t] = emb]
               /\ engPc' = [engPc EXCEPT ![t] = "consolidate"]
               /\ UNCHANGED engFacts
    /\ UNCHANGED <<engProcessing, engUser, engRun, engCalls, engWriter, engTurns,
                   engLastExit, engSkipped, engLast, memItems, memOps, memLast>>

\* Consolidator.Consolidate: with no similar memory the result is ADD and the
\* LLM is not called; otherwise the LLM is called once and its reply decides,
\* an unparsable reply or an unknown action counting as ADD.
MutConsolidate(similar, reply, target) ==
    [action |-> IF reply = "unknown" THEN "ADD" ELSE reply,
     target |-> target, llmCalls |-> 1]
Consolidate(similar, reply, target) ==
    IF similar = {}
    THEN [action |-> "ADD", target |-> NoTargetID, llmCalls |-> 0]
    ELSE [action |-> IF reply = "unknown" THEN "ADD" ELSE reply,
          target |-> target, llmCalls |-> 1]

\* The item processFact adds for a fact.
FactItem(user, fact, emb) ==
    [MemoryItem(user, emb, fact.Importance) EXCEPT !.category = fact.Category]

\* processFact after the similarity search: the consolidator's decision is
\* executed.  The target is the id the consolidator names, whichever it is.  An
\* UPDATE without a target or without merged content falls back to ADD; a
\* DELETE without a target does nothing; a failed consolidation ("error")
\* writes nothing.  An INSERT into a full table fails.
MutProcessFact(items, user, fact, emb, similar, reply, newEmb, dbOk) ==
    LET result == Consolidate(similar, reply[1], reply[2])
        canAdd == \E id \in MemIds : items[id] = NoMem
        fresh == IF canAdd
                 THEN CHOOSE id \in MemIds : id \in AddIds(items) /\ items[id] = NoMem
                 ELSE CHOOSE id \in MemIds : TRUE
        item == FactItem(user, fact, emb)
        known == result.target # NoTargetID
        complete == known /\ reply[3]
        write ==
          CASE result.action = "ADD" ->
                  StoreAdd(items, fresh, item, dbOk /\ canAdd)
            [] result.action = "UPDATE" /\ complete ->
                  StoreUpdate(items, result.target, newEmb, dbOk)
            [] result.action = "DELETE" /\ known ->
                  StoreDelete(items, result.target, dbOk)
            [] OTHER -> [items |-> items, err |-> result.action = "error"]
    IN [items |-> write.items, err |-> write.err, action |-> result.action,
        llmCalls |-> result.llmCalls,
        wrote |-> result.action \in {"ADD", "UPDATE"} \/ (result.action = "DELETE" /\ known)]
processFact(items, user, fact, emb, similar, reply, newEmb, dbOk) ==
    LET result == Consolidate(similar, reply[1], reply[2])
        canAdd == \E id \in MemIds : items[id] = NoMem
        fresh == IF canAdd
                 THEN CHOOSE id \in MemIds : id \in AddIds(items) /\ items[id] = NoMem
                 ELSE CHOOSE id \in MemIds : TRUE
        item == FactItem(user, fact, emb)
        known == result.target # NoTargetID
        complete == known /\ reply[3]
        write ==
          CASE result.action = "ADD" \/ (result.action = "UPDATE" /\ ~complete) ->
                  StoreAdd(items, fresh, item, dbOk /\ canAdd)
            [] result.action = "UPDATE" /\ complete ->
                  StoreUpdate(items, result.target, newEmb, dbOk)
            [] result.action = "DELETE" /\ known ->
                  StoreDelete(items, result.target, dbOk)
            [] OTHER -> [items |-> items, err |-> result.action = "error"]
    IN [items |-> write.items, err |-> write.err, action |-> result.action,
        llmCalls |-> result.llmCalls,
        wrote |-> result.action \in {"ADD", "UPDATE"} \/ (result.action = "DELETE" /\ known)]

\* processFact of goroutine t, from the consolidation on.  The error it returns
\* is only logged by ProcessConversation.
ProcessFactExecute(t, fact, reply, newEmb, dbOk) ==
    /\ engPc[t] = "consolidate"
    /\ LET r == processFact(memItems, engUser[t], fact, engEmb[t], engSimilar[t], reply,
                            newEmb, dbOk)
       IN /\ memItems' = r.items
          /\ IF r.wrote THEN EngWrote(t) ELSE UNCHANGED <<engWriter, engTurns>>
          /\ engLast' = [action |-> r.action, llmCalls |-> r.llmCalls, fact |-> fact]
    /\ EngNextFact(t)
    /\ UNCHANGED <<engProcessing, engUser, engRun, engCalls, engLastExit, engSkipped,
                   memPending, memOps, memLast>>

\* Step 3: store.Prune(userID, cfg.MaxMemories), then return.
EnginePrune(t, dbOk) ==
    /\ engPc[t] = "prune"
    /\ IF dbOk
       THEN /\ \E victims \in PruneVictims(memItems, engUser[t], MaxMemories) :
                  memItems' = StorePrune(memItems, victims)
            /\ EngReturn(t, "done")
       ELSE /\ UNCHANGED memItems
            /\ EngReturn(t, "pruneError")
    /\ EngWrote(t)
    /\ UNCHANGED <<engFacts, engEmb, engSimilar, engCalls, engSkipped, engLast,
                   memPending, memOps, memLast>>

\* processFact as one call on the store: embed, search, consolidate, execute.
ProcessFact(user, fact, emb, reply, newEmb, dbOk) ==
    /\ memOps < FactCalls
    /\ memOps' = memOps + 1
    /\ \E similar \in SearchResults(memItems, emb, user, ConsolidateTopK, ConsolidateMinScore) :
          LET r == processFact(memItems, user, fact, emb, similar, reply, newEmb, dbOk)
          IN /\ memItems' = r.items
             /\ memPending' = [id \in MemIds |-> IF id \in similar THEN memPending[id] + 1
                                                 ELSE memPending[id]]
             /\ memLast' = [op |-> "processFact", user |-> user, fact |-> fact, emb |-> emb,
                            similar |-> similar, reply |-> reply, action |-> r.action,
                            err |-> r.err]

\* The tables processFact is applied to: empty, one memory of u1, and one
\* memory of each user.
FactTables ==
    {EmptyTable,
     [EmptyTable EXCEPT ![1] = FactItem("u1", ExtractedFact("preference", 100), <<1, 0>>)],
     [id \in MemIds |->
        IF id = 1 THEN FactItem("u1", ExtractedFact("preference", 100), <<1, 0>>)
        ELSE IF id = 2 THEN FactItem("u2", ExtractedFact("preference", 100), <<1, 0>>)
        ELSE NoMem]}

FactNext ==
    \/ \E user \in MemUsers, fact \in ExtractedFacts, emb \in FactVectors,
          reply \in ConsolidateReplies, newEmb \in MergedVectors, dbOk \in BOOLEAN :
          ProcessFact(user, fact, emb, reply, newEmb, dbOk)
    \/ \E id \in MemIds : IncrementAccess(id)

EngineIncrementAccess(id) ==
    /\ IncrementAccess(id)
    /\ UNCHANGED engVars

EngineNext ==
    \/ \E t \in EngThreads, user \in MemUsers : ProcessConversation(t, user)
    \/ \E t \in EngThreads, ok \in BOOLEAN, facts \in FactCounts : Extract(t, ok, facts)
    \/ \E t \in EngThreads, emb \in FactVectors, ok \in BOOLEAN : ProcessFactSearch(t, emb, ok)
    \/ \E t \in EngThreads, fact \in ExtractedFacts, reply \in PipelineReplies,
          newEmb \in MergedVectors, dbOk \in BOOLEAN :
          ProcessFactExecute(t, fact, reply, newEmb, dbOk)
    \/ \E t \in EngThreads, dbOk \in BOOLEAN : EnginePrune(t, dbOk)
    \/ \E id \in MemIds : EngineIncrementAccess(id)


(***************************************************************************)
(* Model switcher: fallback on rate limits, daily reset                    *)
(***************************************************************************)
MaxFallbacks == 2
MaxTicks == 2

\* time.Time.YearDay() of a date, leap years left aside.
DaysPerYear == 365
YearDay(now) == (now % DaysPerYear) + 1
\* The clock moves on by a day or by a year; Ticks counts the moves made.
ClockSteps == {1, DaysPerYear}
Ticks(now) == (now % DaysPerYear) + (now \div DaysPerYear)

primaryModel == "primary"
Models == {primaryModel, "fb1", "fb2"}
NoModel == ""
NotLimited == -1
\* cfg.Agents.Defaults.FallbackModels is whatever list the configuration holds.
FallbackLists == UNION {[1..n -> Models] : n \in 0..MaxFallbacks}
\* The initial provider comes from CreateProvider(cfg), which is
\* CreateProviderForModel(cfg, primary): the primary can be created.
CreatableSets == {c \in SUBSET Models : primaryModel \in c}
\* How a provider.Chat call ends.
ChatOutcomes == {"ok", "rateLimit", "error"}

NoChat == [first |-> "none", model |-> NoModel, provider |-> NoModel, day |-> NotLimited,
           pos |-> 0, switched |-> FALSE, retry |-> "none", result |-> "none"]

MsInitWith(lists, creatables) ==
    /\ msFallbackModels \in lists
    /\ msCreatable \in creatables
    /\ msCurrentModel = primaryModel
    /\ msCurrentProvider = primaryModel
    /\ msRateLimitDay = NotLimited
    /\ msNow = 0
    /\ msSwitchDate = -1
    /\ msPos = 0
    /\ msLast = NoChat
MsInit == MsInitWith(FallbackLists, CreatableSets)
MsIdle == MsInitWith({<<>>}, {{primaryModel}})

SwitcherState(model, provider, day) == [model |-> model, provider |-> provider, day |-> day]

\* maybeResetDaily: back to the primary when today is not the day of the switch.
MutMaybeResetDaily(creatable, model, provider, day, today) ==
    IF day < 0 \/ today = day THEN SwitcherState(model, provider, day)
    ELSE SwitcherState(model, provider, NotLimited)
maybeResetDaily(creatable, model, provider, day, today) ==
    IF day < 0 THEN SwitcherState(model, provider, day)
    ELSE IF today = day THEN SwitcherState(model, provider, day)
    ELSE IF model = primaryModel THEN SwitcherState(model, provider, NotLimited)
    ELSE IF primaryModel \notin creatable THEN SwitcherState(model, provider, day)
    ELSE SwitcherState(primaryModel, primaryModel, NotLimited)

\* The model switchToNext picks: the first fallback when on the primary, else
\* the one after the first entry of the list that equals the current model.
nextModel(fallbacks, model) ==
    IF model = primaryModel THEN fallbacks[1]
    ELSE IF \E i \in 1..Len(fallbacks) : fallbacks[i] = model
         THEN LET i == CHOOSE k \in 1..Len(fallbacks) :
                          /\ fallbacks[k] = model
                          /\ \A j \in 1..(k - 1) : fallbacks[j] # model
              IN IF i + 1 <= Len(fallbacks) THEN fallbacks[i + 1] ELSE NoModel
         ELSE NoModel

\* switchToNext: ok reports whether a switch was made.
MutSwitchToNext(fallbacks, creatable, model, provider, day, today) ==
    [ok |-> Len(fallbacks) > 0, state |-> SwitcherState(model, provider, day)]
switchToNext(fallbacks, creatable, model, provider, day, today) ==
    IF Len(fallbacks) = 0
    THEN [ok |-> FALSE, state |-> SwitcherState(model, provider, day)]
    ELSE LET next == nextModel(fallbacks, model)
         IN IF next = NoModel \/ next \notin creatable
            THEN [ok |-> FALSE, state |-> SwitcherState(model, provider, day)]
            ELSE [ok |-> TRUE, state |-> SwitcherState(next, next, today)]

\* Chat: the daily reset, the call on the current model, and on a rate limit
\* the switch followed by one retry on the new model.  retry is "none" when no
\* retry is made.
Chat(first, retry) ==
    LET today == YearDay(msNow)
        r == maybeResetDaily(msCreatable, msCurrentModel, msCurrentProvider,
                             msRateLimitDay, today)
        sw == switchToNext(msFallbackModels, msCreatable, r.model, r.provider, r.day, today)
        switched == first = "rateLimit" /\ sw.ok
        after == IF switched THEN sw.state ELSE r
        pos == IF r.day = NotLimited THEN 0 ELSE msPos
    IN /\ (retry = "none") <=> ~switched
       /\ msCurrentModel' = after.model
       /\ msCurrentProvider' = after.provider
       /\ msRateLimitDay' = after.day
       /\ msSwitchDate' = IF switched THEN msNow
                          ELSE IF r.day = NotLimited THEN -1 ELSE msSwitchDate
       /\ msPos' = IF ~switched \/ pos > Len(msFallbackModels) THEN pos ELSE pos + 1
       /\ msLast' = [first |-> first, model |-> r.model, provider |-> r.provider,
                     day |-> r.day, pos |-> pos, switched |-> switched, retry |-> retry,
                     result |-> IF switched THEN retry ELSE first]
       /\ UNCHANGED <<msFallbackModels, msCreatable, msNow>>

\* The wall clock moves on.
AdvanceClock(days) ==
    /\ Ticks(msNow) < MaxTicks
    /\ msNow' = msNow + days
    /\ UNCHANGED <<msFallbackModels, msCreatable, msCurrentModel, msCurrentProvider,
                   msRateLimitDay, msSwitchDate, msPos, msLast>>

SwitcherNext ==
    \/ \E first \in ChatOutcomes, retry \in ChatOutcomes \cup {"none"} : Chat(first, retry)
    \/ \E days \in ClockSteps : AdvanceClock(days)


(***************************************************************************)
(* Embedding BLOB encoding                                                 *)
(***************************************************************************)
MaxVecLen == 2

\* A float32 is modelled by its bit pattern math.Float32bits yields, a 32-bit
\* word kept as two 16-bit halves: hi * 65536 + lo.
Word(hi, lo) == [hi |-> hi, lo |-> lo]
\* 0.0, 1.0, -0.5, 0.1, a NaN, all ones, and a word of four different bytes.
Words == {Word(0, 0), Word(16256, 0), Word(48896, 0), Word(15820, 52429),
          Word(32704, 0), Word(65535, 65535), Word(258, 772)}
\* A Go slice: nil, or its elements.
NilSlice == [isNil |-> TRUE, elems |-> <<>>]
Slice(elems) == [isNil |-> FALSE, elems |-> elems]
Float32Slices == {NilSlice} \cup {Slice(e) : e \in UNION {[1..n -> Words] : n \in 0..MaxVecLen}}

\* binary.LittleEndian.PutUint32: the four bytes of a word, lowest first.
MutPutUint32(w) == <<w.hi \div 256, w.hi % 256, w.lo \div 256, w.lo % 256>>
PutUint32(w) == <<w.lo % 256, w.lo \div 256, w.hi % 256, w.hi \div 256>>
\* binary.LittleEndian.Uint32 of the four bytes of b from offset off.
Uint32(b, off) == Word(b[off + 3] + 256 * b[off + 4], b[off + 1] + 256 * b[off + 2])

encodeEmbedding(emb) ==
    IF Len(emb.elems) = 0 THEN NilSlice
    ELSE Slice([k \in 1..(Len(emb.elems) * 4) |->
                   PutUint32(emb.elems[((k - 1) \div 4) + 1])[((k - 1) % 4) + 1]])

decodeEmbedding(data) ==
    IF Len(data.elems) = 0 \/ Len(data.elems) % 4 # 0 THEN NilSlice
    ELSE Slice([i \in 1..(Len(data.elems) \div 4) |-> Uint32(data.elems, (i - 1) * 4)])

EncInitWith(inputs) ==
    /\ encPc = "input"
    /\ encIn \in inputs
    /\ encBlob = NilSlice
    /\ encOut = NilSlice
EncInit == EncInitWith(Float32Slices)
EncIdle == EncInitWith({NilSlice})

\* Add / Update encode the embedding for the BLOB column.
EncodeEmbedding ==
    /\ encPc = "input"
    /\ encBlob' = encodeEmbedding(encIn)
    /\ encPc' = "encoded"
    /\ UNCHANGED <<encIn, encOut>>

\* Search / GetByUser decode the BLOB column.
DecodeEmbedding ==
    /\ encPc = "encoded"
    /\ encOut' = decodeEmbedding(encBlob)
    /\ encPc' = "decoded"
    /\ UNCHANGED <<encIn, encBlob>>

EncodingNext == EncodeEmbedding \/ DecodeEmbedding


(***************************************************************************)
(* Channel base: the allow-list gate in front of the bus                   *)
(***************************************************************************)
MaxIdLen == 2
MaxHandled == 1

\* Strings are sequences of characters.
IdChars == {"a", "b", "|"}
SenderIds == UNION {[1..n -> IdChars] : n \in 0..MaxIdLen}
ChatIds == {<<"1">>, <<"2">>}
ChannelNames == {<<"t", "g">>, <<"c", "l", "i">>}
\* The allow lists a configuration may hold; the order of the entries does
\* not matter to IsAllowed, so a list is kept as the set of its entries.
AllowLists == {{}, {<<>>}, {<<"a">>}, {<<"a", "|", "b">>}, {<<"b">>, <<"a", "|">>}}

\* strings.Index(s, c): the offset of the first c in s, or -1.
Index(str, c) ==
    IF \E i \in 1..Len(str) : str[i] = c
    THEN (CHOOSE i \in 1..Len(str) : str[i] = c /\ \A j \in 1..(i - 1) : str[j] # c) - 1
    ELSE -1

MutIsAllowed(allowList, senderID) == allowList = {} \/ senderID \in allowList
IsAllowed(allowList, senderID) ==
    IF allowList = {} THEN TRUE
    ELSE LET idx == Index(senderID, "|")
             idPart == IF idx > 0 THEN SubSeq(senderID, 1, idx) ELSE senderID
         IN \E allowed \in allowList : senderID = allowed \/ idPart = allowed

InboundMessage(name, senderID, chatID) ==
    [Channel |-> name, SenderID |-> senderID, ChatID |-> chatID,
     SessionKey |-> name \o <<":">> \o chatID]

NoHandled == [sender |-> <<>>, published |-> FALSE]

ChInitWith(names, lists) ==
    /\ chName \in names
    /\ chAllowList \in lists
    /\ chInbound = <<>>
    /\ chHandled = 0
    /\ chLast = NoHandled
ChInit == ChInitWith(ChannelNames, AllowLists)
ChIdle == ChInitWith({<<"c", "l", "i">>}, {{}})

\* HandleMessage: drop the message of a sender that is not allowed, else
\* publish it on the bus.
HandleMessage(senderID, chatID) ==
    /\ chHandled < MaxHandled
    /\ chHandled' = chHandled + 1
    /\ IF ~IsAllowed(chAllowList, senderID)
       THEN /\ chLast' = [sender |-> senderID, published |-> FALSE]
            /\ UNCHANGED chInbound
       ELSE /\ chInbound' = Append(chInbound, InboundMessage(chName, senderID, chatID))
            /\ chLast' = [sender |-> senderID, published |-> TRUE]
    /\ UNCHANGED <<chName, chAllowList>>

ChannelNext == \E senderID \in SenderIds, chatID \in ChatIds : HandleMessage(senderID, chatID)


(***************************************************************************)
(* Heartbeat notes: the CRUD methods and the store file                    *)
(***************************************************************************)
MaxNotes == 2
MaxNoteOps == 3

NoteIds == 1..MaxNotes
\* A note, as far as listing goes: its id and its enabled flag.
HeartbeatNote(id, enabled) == [ID |-> id, Enabled |-> enabled]
\* How saveStore ends: MkdirAll, MarshalIndent or WriteFile may fail.
SaveOutcomes == {"ok", "failed"}
\* heartbeat_notes.json: absent, or the JSON document of a store.  A nil
\* Notes slice is written as null, an empty one as [].
NoFile == [Version |-> 0, Notes |-> NilSlice]
HeartbeatStore(notes) == [Version |-> 1, Notes |-> notes]
\* No second service instance has been created.
NoInstance == [Version |-> 0, Notes |-> NilSlice]

\* saveStore: the whole store replaces the file; a failure leaves the file.
saveStore(file, notes, outcome) == IF outcome = "ok" THEN HeartbeatStore(notes) ELSE file

\* migrateFromFile: a non-empty HEARTBEAT.md becomes one enabled note.
migrateFromFile(notes, legacy, id) ==
    IF legacy THEN Slice(Append(notes.elems, HeartbeatNote(id, TRUE))) ELSE notes

\* loadStore: the store of a new instance.  Without a store file it is the
\* empty store plus the migrated note; else it is what the document holds
\* (json.Unmarshal sets Notes to nil for null).
MutLoadStore(file, legacy, id) ==
    IF file = NoFile THEN migrateFromFile(Slice(<<>>), legacy, id)
    ELSE Slice([i \in 1..Len(file.Notes.elems) |->
                   HeartbeatNote(file.Notes.elems[i].ID, TRUE)])
loadStore(file, legacy, id) ==
    IF file = NoFile THEN migrateFromFile(Slice(<<>>), legacy, id)
    ELSE file.Notes

\* ListNotes(includeDisabled): a copy of the notes, or the enabled ones.
SelectEnabled(notes) == SelectSeq(notes, LAMBDA n : n.Enabled)
ListNotes(notes, includeDisabled) ==
    IF includeDisabled THEN notes.elems ELSE SelectEnabled(notes.elems)

\* NewHeartbeatService on a workspace where HEARTBEAT.md may exist and the
\* write of the migrated store may fail.
HnInitWith(legacies, outcomes) ==
    \E legacy \in legacies, outcome \in outcomes :
       /\ hnLegacy = legacy
       /\ hnNotes = loadStore(NoFile, legacy, 1)
       /\ hnFile = IF legacy THEN saveStore(NoFile, hnNotes, outcome) ELSE NoFile
       /\ hnNextId = IF legacy THEN 2 ELSE 1
       /\ hnAllSaved = (legacy => outcome = "ok")
       /\ hnOps = 0
       /\ hnFresh = NoInstance
       /\ hnLast = [op |-> "none", wrote |-> "none", returned |-> "none"]
HnInit == HnInitWith({FALSE}, {"ok"})

\* A CRUD call: it counts against the budget of the run, and the instance
\* created before it no longer mirrors the store.
HnCall(op, wrote, returned) ==
    /\ hnOps < MaxNoteOps
    /\ hnOps' = hnOps + 1
    /\ hnLast' = [op |-> op, wrote |-> wrote, returned |-> returned]
    /\ hnAllSaved' = (hnAllSaved /\ wrote # "failed")
    /\ hnFresh' = NoInstance
    /\ UNCHANGED hnLegacy

\* AddNote returns (&note, nil), or (nil, err) when saveStore failed; the note
\* has been appended to the store in memory either way.
AddNote(outcome) ==
    /\ hnNextId \in NoteIds
    /\ LET notes == Slice(Append(hnNotes.elems, HeartbeatNote(hnNextId, TRUE)))
       IN /\ hnNotes' = notes
          /\ hnFile' = saveStore(hnFile, notes, outcome)
    /\ hnNextId' = hnNextId + 1
    /\ HnCall("add", outcome, IF outcome = "ok" THEN "note" ELSE "error")

\* RemoveNote returns whether a note was removed; saveStore's error is
\* dropped.  The notes are rebuilt by append from a nil slice.
RemoveNote(noteID, outcome) ==
    LET kept == SelectSeq(hnNotes.elems, LAMBDA n : n.ID # noteID)
        notes == IF kept = <<>> THEN NilSlice ELSE Slice(kept)
        removed == Len(kept) < Len(hnNotes.elems)
    IN /\ outcome = "none" <=> ~removed
       /\ hnNotes' = notes
       /\ hnFile' = IF removed THEN saveStore(hnFile, notes, outcome) ELSE hnFile
       /\ HnCall("remove", outcome, IF removed THEN "true" ELSE "false")
       /\ UNCHANGED hnNextId

\* EnableNote returns the note, or nil when there is none with that id;
\* saveStore's error is dropped.
EnableNote(noteID, enabled, outcome) ==
    LET found == \E i \in 1..Len(hnNotes.elems) : hnNotes.elems[i].ID = noteID
        notes == [hnNotes EXCEPT !.elems =
                     [i \in 1..Len(hnNotes.elems) |->
                         IF hnNotes.elems[i].ID = noteID
                         THEN HeartbeatNote(noteID, enabled) ELSE hnNotes.elems[i]]]
    IN /\ outcome = "none" <=> ~found
       /\ hnNotes' = IF found THEN notes ELSE hnNotes
       /\ hnFile' = IF found THEN saveStore(hnFile, notes, outcome) ELSE hnFile
       /\ HnCall("enable", outcome, IF found THEN "note" ELSE "nil")
       /\ UNCHANGED hnNextId

\* A second NewHeartbeatService on the same workspace: it loads the store
\* file, or migrates HEARTBEAT.md again under a new id and saves.
NewHeartbeatService(outcome) ==
    /\ hnOps < MaxNoteOps
    /\ hnOps' = hnOps + 1
    /\ LET migrates == hnFile = NoFile /\ hnLegacy
           store == loadStore(hnFile, hnLegacy, hnNextId)
       IN /\ migrates => hnNextId \in NoteIds
          /\ outcome = "none" <=> ~migrates
          /\ hnFresh' = HeartbeatStore(store)
          /\ hnFile' = IF migrates THEN saveStore(hnFile, store, outcome) ELSE hnFile
          /\ hnNextId' = IF migrates THEN hnNextId + 1 ELSE hnNextId
    /\ UNCHANGED <<hnNotes, hnLegacy, hnAllSaved, hnLast>>

NotesNext ==
    \/ \E outcome \in SaveOutcomes : AddNote(outcome)
    \/ \E noteID \in NoteIds, outcome \in SaveOutcomes \cup {"none"} : RemoveNote(noteID, outcome)
    \/ \E noteID \in NoteIds, enabled \in BOOLEAN, outcome \in SaveOutcomes \cup {"none"} :
          EnableNote(noteID, enabled, outcome)
    \/ \E outcome \in SaveOutcomes \cup {"none"} : NewHeartbeatService(outcome)

(***************************************************************************)
(* processMessage: the tool loop and its working message list              *)
(* (pkg/agent/loop.go).  The bus and the session are followed in the agent *)
(* loop section above; this section follows the messages the loop appends  *)
(* to its working list and the tools it runs.                              *)
(***************************************************************************)
ToolIters == 5
ToolOnlyIters == 11

\* A tool call of a response: its id, and whether executing it succeeds.
ToolCall(id, ok) == [ID |-> id, ok |-> ok]
\* response.ToolCalls, as the provider can return it.
ToolCallLists ==
    {<<>>, <<ToolCall("call_1", TRUE)>>, <<ToolCall("call_1", FALSE)>>,
     <<ToolCall("call_1", FALSE), ToolCall("call_2", TRUE)>>,
     <<ToolCall("call_1", FALSE), ToolCall("call_2", FALSE)>>}
ShortCallLists == {<<>>, <<ToolCall("call_1", TRUE)>>}
\* response.Content: empty or some text.
Contents == {"", "text"}

\* The canned answers of processMessage.
Difficulties == "I've been working on your request but encountered difficulties."
NoResponse == "I've completed processing but have no response to give."

\* providers.Message, as the loop builds it.
AssistantMessage(content, calls) ==
    [Role |-> "assistant", Content |-> content,
     ToolCalls |-> [i \in 1..Len(calls) |-> calls[i].ID], ToolCallID |-> ""]
ToolMessage(tc) ==
    [Role |-> "tool", Content |-> IF tc.ok THEN "result" ELSE "Error: tool failed",
     ToolCalls |-> <<>>, ToolCallID |-> tc.ID]

\* Whether tool definitions are handed to provider.Chat: providerToolDefs is
\* nil once consecutiveToolErrors has reached maxConsecutiveErrors.
MutToolsOffered(errors) == ~(errors > maxConsecutiveErrors)
ToolsOffered(errors) == ~(errors >= maxConsecutiveErrors)

\* The tool-only safety break.
MutToolOnlyBreak(toolOnly) == toolOnly > maxConsecutiveToolOnly
ToolOnlyBreak(toolOnly) == toolOnly >= maxConsecutiveToolOnly

\* The loop over response.ToolCalls: every call is executed, in the order
\* received, and its result or its error text is appended as a tool message.
RECURSIVE MutExecuteToolsAbort(_)
MutExecuteToolsAbort(calls) ==
    IF calls = <<>> THEN <<>>
    ELSE IF ~Head(calls).ok THEN <<ToolMessage(Head(calls))>>
    ELSE <<ToolMessage(Head(calls))>> \o MutExecuteToolsAbort(Tail(calls))
MutExecuteTools(calls) == [i \in 1..Len(calls) |-> ToolMessage(calls[1])]
ExecuteTools(calls) == [i \in 1..Len(calls) |-> ToolMessage(calls[i])]

\* allFailed after the loop over the tool calls.
allFailed(calls) == \A i \in 1..Len(calls) : ~calls[i].ok

\* An entry of the history of LLM calls.
ChatEntry(offered, chat, content, calls, executed) ==
    [offered |-> offered, chat |-> chat, content |-> content, calls |-> calls,
     executed |-> executed]

ToolsInit(iterations, callLists) ==
    /\ tlMaxIterations \in iterations
    /\ tlCallLists = callLists
    /\ tlPc = "loop"
    /\ tlIteration = 0
    /\ tlToolErrors = 0
    /\ tlToolOnly = 0
    /\ tlMessages = <<>>
    /\ tlFinal = ""
    /\ tlLog = <<>>

TlIdle == ToolsInit({0}, {})

\* One iteration whose provider.Chat call fails: processMessage returns the error.
ToolChatError ==
    /\ tlPc = "loop"
    /\ tlIteration < tlMaxIterations
    /\ tlIteration' = tlIteration + 1
    /\ tlLog' = Append(tlLog, ChatEntry(ToolsOffered(tlToolErrors), "error", "", <<>>, <<>>))
    /\ tlPc' = "error"
    /\ UNCHANGED <<tlMaxIterations, tlCallLists, tlToolErrors, tlToolOnly, tlMessages, tlFinal>>

\* One iteration whose provider.Chat call returns a response.
ToolIterate(content, calls) ==
    /\ tlPc = "loop"
    /\ tlIteration < tlMaxIterations
    /\ calls \in tlCallLists
    /\ tlIteration' = tlIteration + 1
    /\ LET offered == ToolsOffered(tlToolErrors)
           toolOnly == IF content = "" THEN tlToolOnly + 1 ELSE 0
       IN IF Len(calls) = 0
          THEN /\ tlFinal' = content
               /\ tlPc' = "done"
               /\ tlLog' = Append(tlLog, ChatEntry(offered, "ok", content, calls, <<>>))
               /\ UNCHANGED <<tlToolErrors, tlToolOnly, tlMessages>>
          ELSE IF ToolOnlyBreak(toolOnly)
          THEN /\ tlToolOnly' = toolOnly
               /\ tlFinal' = IF content = "" THEN Difficulties ELSE content
               /\ tlPc' = "done"
               /\ tlLog' = Append(tlLog, ChatEntry(offered, "ok", content, calls, <<>>))
               /\ UNCHANGED <<tlToolErrors, tlMessages>>
          ELSE /\ tlToolOnly' = toolOnly
               /\ tlMessages' = tlMessages \o <<AssistantMessage(content, calls)>>
                                   \o ExecuteTools(calls)
               /\ tlToolErrors' = IF allFailed(calls) THEN tlToolErrors + 1 ELSE 0
               /\ tlLog' = Append(tlLog, ChatEntry(offered, "ok", content, calls, calls))
               /\ UNCHANGED <<tlFinal, tlPc>>
    /\ UNCHANGED <<tlMaxIterations, tlCallLists>>

\* The loop ends because the iteration bound is reached.
ToolLoopEnd ==
    /\ tlPc = "loop"
    /\ ~(tlIteration < tlMaxIterations)
    /\ tlPc' = "done"
    /\ UNCHANGED <<tlMaxIterations, tlCallLists, tlIteration, tlToolErrors, tlToolOnly,
                   tlMessages, tlFinal, tlLog>>

\* What processMessage returns when it returns no error: finalContent after the
\* empty-response default.
Returned == IF tlFinal = "" THEN NoResponse ELSE tlFinal

ToolsNext ==
    \/ ToolChatError
    \/ \E content \in Contents, calls \in ToolCallLists : ToolIterate(content, calls)
    \/ ToolLoopEnd

(***************************************************************************)
(* Provider adapter: tool-call accumulation of a streamed response         *)
(***************************************************************************)
MaxFrags == 3

\* delta.tool_calls[].index values of the stream.
Indices == {0, 1}
\* tc.Function == nil.
NoFunction == [name |-> "none"]
Function(name, arguments) == [name |-> name, arguments |-> arguments]
\* Argument text is a sequence of characters; the fragments of a stream.
ToolCallDelta(index, id, function) == [index |-> index, id |-> id, function |-> function]
Fragments ==
    {ToolCallDelta(i, d[1], d[2]) :
       i \in Indices,
       d \in {<<"call_a", Function("f", <<"{">>)>>,
              <<"", Function("", <<"}">>)>>,
              <<"", Function("g", <<"{">>)>>,
              <<"call_b", Function("g", <<>>)>>,
              <<"call_b", NoFunction>>}}

NoPartial == [ID |-> "absent"]
partialToolCall == [ID |-> "", Name |-> "", ArgsJSON |-> <<>>]
NoResponseYet == <<[ID |-> "reading"]>>

\* The body of "for _, tc := range delta.ToolCalls" for one fragment.
Accumulate(map, tc) ==
    LET ptc == IF map[tc.index] = NoPartial THEN partialToolCall ELSE map[tc.index]
        withId == IF tc.id # "" THEN [ptc EXCEPT !.ID = tc.id] ELSE ptc
        withFn == IF tc.function = NoFunction THEN withId
                  ELSE [withId EXCEPT
                          !.Name = IF tc.function.name # "" THEN tc.function.name ELSE @,
                          !.ArgsJSON = @ \o tc.function.arguments]
    IN [map EXCEPT ![tc.index] = withFn]

\* json.Unmarshal of the argument text into a map, with the fallback to
\* {"raw": text}; no text at all leaves the empty map. Over the characters of
\* the model the one JSON object is "{}".
EmptyArguments == [keys |-> {}]
UnmarshalArguments(argsStr) ==
    IF argsStr = <<>> \/ argsStr = <<"{", "}">> THEN EmptyArguments
    ELSE [keys |-> {"raw"}, raw |-> argsStr]
ToolCallOf(ptc) ==
    [ID |-> ptc.ID, Name |-> ptc.Name, Arguments |-> UnmarshalArguments(ptc.ArgsJSON)]

\* "for i := 0; i < len(toolCallMap); i++": the keys below the number of keys.
RECURSIVE BuildFrom(_, _, _)
BuildFrom(map, i, n) ==
    IF i >= n THEN <<>>
    ELSE (IF i \in Indices /\ map[i] # NoPartial THEN <<ToolCallOf(map[i])>> ELSE <<>>)
            \o BuildFrom(map, i + 1, n)
BuildToolCalls(map) ==
    BuildFrom(map, 0, Cardinality({i \in Indices : map[i] # NoPartial}))

PsInit ==
    /\ psStream = <<>>
    /\ psMap = [i \in Indices |-> NoPartial]
    /\ psResponse = NoResponseYet
PsIdle ==
    /\ psStream = <<>>
    /\ psMap = [i \in Indices |-> NoPartial]
    /\ psResponse = <<>>

\* One chunk of the stream that carries a tool-call fragment.
StreamChunk(tc) ==
    /\ psResponse = NoResponseYet
    /\ Len(psStream) < MaxFrags
    /\ psStream' = Append(psStream, tc)
    /\ psMap' = Accumulate(psMap, tc)
    /\ UNCHANGED psResponse

\* "data: [DONE]" or the end of the body: the tool calls are built.
StreamEnd ==
    /\ psResponse = NoResponseYet
    /\ psResponse' = BuildToolCalls(psMap)
    /\ UNCHANGED <<psStream, psMap>>

StreamNext ==
    \/ \E tc \in Fragments : StreamChunk(tc)
    \/ StreamEnd

(***************************************************************************)
(* Memory extractor: Extract                                               *)
(***************************************************************************)
MaxFacts == 6
\* "if len(validFacts) > 5".
MaxValidFacts == 5
CategoryFact == "fact"

\* The elements the LLM's JSON array can hold, importance in hundredths.
RawFact(content, category, importance) ==
    [content |-> content, category |-> category, importance |-> importance]
RawFacts ==
    {RawFact("", "preference", 50), RawFact("likes tea", "", 150),
     RawFact("lives in Hue", "context", 0 - 50), RawFact("uses Go", "fact", 80)}
\* What the extraction call yields: an error, content that json.Unmarshal
\* rejects after stripCodeBlock and repairJSONArray, or an array of facts.
ExtractReplies ==
    {[kind |-> "error"], [kind |-> "unparsable"]}
       \cup {[kind |-> "array", facts |-> facts] :
               facts \in UNION {[1..n -> RawFacts] : n \in 0..MaxFacts}}
MessageCounts == {0, 1}

\* "Validate and filter": empty contents dropped, importance clamped to [0, 1],
\* the category defaulted.
RECURSIVE ValidFacts(_)
MutValidFacts(facts) == facts
ValidFacts(facts) ==
    IF facts = <<>> THEN <<>>
    ELSE LET f == Head(facts)
             clamped == IF f.importance < 0 THEN 0
                        ELSE IF f.importance > 100 THEN 100 ELSE f.importance
             category == IF f.category = "" THEN CategoryFact ELSE f.category
         IN (IF f.content = "" THEN <<>>
             ELSE <<RawFact(f.content, category, clamped)>>) \o ValidFacts(Tail(facts))

ExtractorExtract(messages, reply) ==
    IF messages = 0 THEN [facts |-> <<>>, err |-> FALSE, llmCalls |-> 0]
    ELSE IF reply.kind = "error" THEN [facts |-> <<>>, err |-> TRUE, llmCalls |-> 1]
    ELSE IF reply.kind = "unparsable" THEN [facts |-> <<>>, err |-> FALSE, llmCalls |-> 1]
    ELSE LET validFacts == ValidFacts(reply.facts)
         IN [facts |-> IF Len(validFacts) > MaxValidFacts
                       THEN SubSeq(validFacts, 1, MaxValidFacts) ELSE validFacts,
             err |-> FALSE, llmCalls |-> 1]

NotReturned == [err |-> "pending"]
ExInit ==
    /\ exMessages \in MessageCounts
    /\ exReply \in ExtractReplies
    /\ exResult = NotReturned
ExIdle ==
    /\ exMessages = 0
    /\ exReply = [kind |-> "error"]
    /\ exResult = NotReturned

ExtractCall ==
    /\ exResult = NotReturned
    /\ exResult' = ExtractorExtract(exMessages, exReply)
    /\ UNCHANGED <<exMessages, exReply>>

ExtractNext == ExtractCall

(***************************************************************************)
(* summarizeSession on a session loaded from the store                     *)
(***************************************************************************)
MaxHistory == 16
\* The shortest history summarizeSession does not return on at once; with this
\* window it is due for compression.
MinHistory == KeepLast + 1

NoCalls == [failed |-> "none"]
SmIdle == smCalls = NoCalls

\* The sessions a summarizeSession run can find: a history that passed the
\* trigger, with or without an earlier summary (of turns no longer in the
\* history) and with or without an oversized first message.
StoredHistories == {[i \in 1..n |-> i] : n \in MinHistory..MaxHistory}
StoredSummaries == {NoSummary, SummaryOf({0})}
SummarizeInit ==
    /\ busInbound = <<>>
    /\ busNextMsg = 1
    /\ busLimit = 0
    /\ busOutbound = [m \in Msgs |-> NoOutbound]
    /\ msgBig \in {{}, {1}}
    /\ alChannel = "cli"
    /\ alMaxIterations = AgentIters
    /\ alContextWindow = AgentWindow
    /\ alPc = "idle"
    /\ alMsg = 0
    /\ alIteration = 0
    /\ alToolErrors = 0
    /\ alToolOnly = 0
    /\ alFinal = ""
    /\ alChatCalls = 0
    /\ alResult = [m \in Msgs |-> "none"]
    /\ alSummarizing = TRUE
    /\ sessHistory \in StoredHistories
    /\ sessSummary \in StoredSummaries
    /\ sessPersisted = [history |-> sessHistory, summary |-> sessSummary]
    /\ sessAppended = {}
    /\ sumPc = "start"
    /\ sumValid = <<>>
    /\ sumSummary = NoSummary
    /\ sumOmitted = FALSE
    /\ sumFinal = NoSummary
    /\ sumRead = <<>>
    /\ smCalls = NoCalls

\* The LLM calls of the run, with their outcomes on record: both partial
\* summaries and the merge in the split path, the single pass otherwise.
SummarizeCalls(ok1, ok2, merge) ==
    /\ summarizeLLM(ok1, ok2, merge)
    /\ smCalls' = [split |-> Len(sumValid) > MultiPartMin,
                   failed |-> IF Len(sumValid) > MultiPartMin
                              THEN ~ok1 /\ ~ok2 /\ merge = "error"
                              ELSE ~ok1,
                   history |-> sessHistory, summary |-> sessSummary]

SummarizeNext ==
    \/ summarizeSession /\ UNCHANGED smCalls
    \/ \E ok1 \in BOOLEAN, ok2 \in BOOLEAN, merge \in {"text", "empty", "error"} :
          SummarizeCalls(ok1, ok2, merge)
    \/ SetSummary /\ UNCHANGED smCalls
    \/ SumTruncate /\ UNCHANGED smCalls
    \/ SumSave /\ UNCHANGED smCalls

(***************************************************************************)
(* Memory engine: the calls of ProcessConversation at the guard            *)
(***************************************************************************)
GuardCalls == 2

NoGuardCall == [user |-> "none"]
GdIdle == gdCall = NoGuardCall

\* A ProcessConversation call, with what processing held when it arrived.
GuardedCall(t, user) ==
    /\ engCalls < GuardCalls
    /\ ProcessConversation(t, user)
    /\ gdCall' = [user |-> user, thread |-> t, held |-> user \in engProcessing,
                  others |-> engProcessing \ {user}]

\* The pipelines behind the guard, with a consolidator that adds or deletes.
GuardReplies == {<<"ADD", NoTargetID, FALSE>>, <<"DELETE", 1, FALSE>>}
GuardNext ==
    \/ \E t \in EngThreads, user \in MemUsers : GuardedCall(t, user)
    \/ (\E t \in EngThreads, ok \in BOOLEAN, facts \in FactCounts : Extract(t, ok, facts))
          /\ UNCHANGED gdCall
    \/ (\E t \in EngThreads, emb \in FactVectors, ok \in BOOLEAN : ProcessFactSearch(t, emb, ok))
          /\ UNCHANGED gdCall
    \/ (\E t \in EngThreads, fact \in ExtractedFacts, reply \in GuardReplies,
           newEmb \in MergedVectors, dbOk \in BOOLEAN :
           ProcessFactExecute(t, fact, reply, newEmb, dbOk))
          /\ UNCHANGED gdCall
    \/ (\E t \in EngThreads, dbOk \in BOOLEAN : EnginePrune(t, dbOk)) /\ UNCHANGED gdCall
    \/ (\E id \in MemIds : EngineIncrementAccess(id)) /\ UNCHANGED gdCall

(***************************************************************************)
(* Model switcher: Chat called concurrently                                *)
(***************************************************************************)
Callers == {"c1", "c2"}
CallAt(pc) == [pc |-> pc, model |-> NoModel, first |-> "none", retry |-> NoModel, result |-> "none"]
CcInit == ccCall = [c \in Callers |-> CallAt("start")]
CcIdle == ccCall = [c \in Callers |-> CallAt("none")]

msState == <<msCurrentModel, msCurrentProvider, msRateLimitDay>>
SetState(state) ==
    /\ msCurrentModel' = state.model
    /\ msCurrentProvider' = state.provider
    /\ msRateLimitDay' = state.day

\* Chat: ms.maybeResetDaily(), under ms.mu.
ChatReset(c) ==
    /\ ccCall[c].pc = "start"
    /\ LET r == maybeResetDaily(msCreatable, msCurrentModel, msCurrentProvider,
                                msRateLimitDay, YearDay(msNow))
       IN SetState(r)
    /\ ccCall' = [ccCall EXCEPT ![c].pc = "read"]

\* Chat: model and provider are read under the read lock.
ChatRead(c) ==
    /\ ccCall[c].pc = "read"
    /\ ccCall' = [ccCall EXCEPT ![c].pc = "call", ![c].model = msCurrentModel]
    /\ UNCHANGED msState

\* Chat: provider.Chat returns; anything but a rate limit ends the call.
ChatCall(c, outcome) ==
    /\ ccCall[c].pc = "call"
    /\ ccCall' = [ccCall EXCEPT ![c].pc = IF outcome = "rateLimit" THEN "switch" ELSE "done",
                                ![c].first = outcome, ![c].result = outcome]
    /\ UNCHANGED msState

\* Chat: ms.switchToNext(), under ms.mu.
ChatSwitch(c) ==
    /\ ccCall[c].pc = "switch"
    /\ LET sw == switchToNext(msFallbackModels, msCreatable, msCurrentModel,
                              msCurrentProvider, msRateLimitDay, YearDay(msNow))
       IN /\ SetState(sw.state)
          /\ ccCall' = [ccCall EXCEPT ![c].pc = IF sw.ok THEN "retry" ELSE "done"]

\* Chat: the new model is read under the read lock and the request retried.
ChatRetry(c, outcome) ==
    /\ ccCall[c].pc = "retry"
    /\ ccCall' = [ccCall EXCEPT ![c].pc = "done", ![c].retry = msCurrentModel,
                                ![c].result = outcome]
    /\ UNCHANGED msState

ConcurrentNext ==
    /\ \E c \in Callers :
          \/ ChatReset(c)
          \/ ChatRead(c)
          \/ \E outcome \in ChatOutcomes : ChatCall(c, outcome)
          \/ ChatSwitch(c)
          \/ \E outcome \in ChatOutcomes : ChatRetry(c, outcome)
    /\ UNCHANGED <<msFallbackModels, msCreatable, msNow, msSwitchDate, msPos, msLast>>

(***************************************************************************)
(* Heartbeat service: Start, Stop and the ticker loops                     *)
(***************************************************************************)
MaxStarts == 3

NoLifecycleCall == [op |-> "none"]
TkInitWith(enabled) ==
    /\ tkEnabled \in enabled
    /\ tkChans = <<>>
    /\ tkStopChan = 0
    /\ tkLoops = <<>>
    /\ tkLast = NoLifecycleCall
TkInit == TkInitWith(BOOLEAN)
TkIdle == TkInitWith({FALSE})

\* running() on the service's channels.
tkRunning == tkStopChan # 0 /\ tkChans[tkStopChan] = "open"
\* A handler is between processing.CompareAndSwap and Store(false).
tkProcessing == \E l \in 1..Len(tkLoops) : tkLoops[l].pc = "handler"

\* Start: nil when running, an error when disabled, else a new stop channel in
\* hs.stopChan and a new runLoop goroutine.
ServiceStart ==
    /\ Len(tkLoops) < MaxStarts
    /\ tkLast' = [op |-> "Start", running |-> tkRunning, loops |-> Len(tkLoops),
                  err |-> ~tkRunning /\ ~tkEnabled]
    /\ IF tkRunning \/ ~tkEnabled
       THEN UNCHANGED <<tkChans, tkStopChan, tkLoops>>
       ELSE /\ tkChans' = Append(tkChans, "open")
            /\ tkStopChan' = Len(tkChans) + 1
            /\ tkLoops' = Append(tkLoops, [pc |-> "select", read |-> Len(tkChans) + 1])
    /\ UNCHANGED tkEnabled

\* Stop: closes hs.stopChan when running.
ServiceStop ==
    /\ tkLast' = [op |-> "Stop", running |-> tkRunning, loops |-> Len(tkLoops), err |-> FALSE]
    /\ tkChans' = IF tkRunning THEN [tkChans EXCEPT ![tkStopChan] = "closed"] ELSE tkChans
    /\ UNCHANGED <<tkEnabled, tkStopChan, tkLoops>>

\* The channel a select of runLoop finds in hs.stopChan: the field is read
\* without the lock, so the loop sees the value it read before or any written
\* since.
Readable(l) == tkLoops[l].read..tkStopChan

\* runLoop, case <-hs.stopChan: the channel read is closed, the loop returns.
runLoopStop(l) ==
    /\ tkLoops[l].pc = "select"
    /\ \E c \in Readable(l) :
          /\ tkChans[c] = "closed"
          /\ tkLoops' = [tkLoops EXCEPT ![l] = [pc |-> "exited", read |-> c]]
    /\ UNCHANGED <<tkEnabled, tkChans, tkStopChan, tkLast>>

\* runLoop, case <-ticker.C: checkHeartbeat returns at once when the service is
\* not running or a heartbeat is processing, else the handler is called.
runLoopTick(l) ==
    /\ tkLoops[l].pc = "select"
    /\ \E c \in Readable(l) :
          tkLoops' = [tkLoops EXCEPT ![l] =
                         [pc |-> IF tkEnabled /\ tkRunning /\ ~tkProcessing
                                 THEN "handler" ELSE "select",
                          read |-> c]]
    /\ UNCHANGED <<tkEnabled, tkChans, tkStopChan, tkLast>>

\* The handler returns and the loop is back at its select.
runLoopHandled(l) ==
    /\ tkLoops[l].pc = "handler"
    /\ tkLoops' = [tkLoops EXCEPT ![l].pc = "select"]
    /\ UNCHANGED <<tkEnabled, tkChans, tkStopChan, tkLast>>

TickerNext ==
    \/ ServiceStart
    \/ ServiceStop
    \/ \E l \in 1..Len(tkLoops) : runLoopStop(l)
    \/ \E l \in 1..Len(tkLoops) : runLoopTick(l)
    \/ \E l \in 1..Len(tkLoops) : runLoopHandled(l)

AuxIdle == PsIdle /\ ExIdle /\ SmIdle /\ GdIdle /\ CcIdle /\ TkIdle

AgentIdle == AgentInit(0, {"cli"}, {AgentIters}, AgentWindow)

ExtIdle == MemInit /\ EngInit /\ MsIdle /\ EncIdle /\ ChIdle /\ HnInit /\ TlIdle /\ AuxIdle

Init == CronInit /\ HbIdle /\ AgentIdle /\ ExtIdle
InitHeartbeat == CronInit /\ HbInit /\ AgentIdle /\ ExtIdle
\* A session fed from a CLI-like channel, with a small context window.
InitAgent == CronInit /\ HbIdle /\ AgentInit(MaxMsgs, {"cli"}, {AgentIters}, AgentWindow) /\ ExtIdle
\* The tool loop in detail: the iteration bound and the two safety counters.
InitLoop == CronInit /\ HbIdle /\ AgentInit(LoopMsgs, {"cli"}, {0, LoopIters}, LoopWindow) /\ ExtIdle
\* A few turns on a chat channel, which receives thinking previews.
InitChat == CronInit /\ HbIdle /\ AgentInit(ChatMsgs, {"telegram"}, {ChatIters}, LoopWindow) /\ ExtIdle

SpecCron == Init /\ [][CronNext /\ UNCHANGED <<hbVars, agentVars, extVars>>]_vars
SpecHeartbeat == InitHeartbeat /\ [][HbNext /\ UNCHANGED <<cronVars, agentVars, extVars>>]_vars
SpecAgent == InitAgent /\ [][AgentNext /\ UNCHANGED <<cronVars, hbVars, extVars>>]_vars
SpecLoop == InitLoop /\ [][LoopNext /\ UNCHANGED <<cronVars, hbVars, extVars>>]_vars
SpecChat == InitChat /\ [][LoopNext /\ UNCHANGED <<cronVars, hbVars, extVars>>]_vars
InitStore == CronInit /\ HbIdle /\ AgentIdle /\ MemInitWith(StoreTables) /\ EngInit /\ MsIdle /\ EncIdle /\ ChIdle /\ HnInit /\ TlIdle /\ AuxIdle
SpecStore ==
    InitStore /\ [][StoreNext /\ UNCHANGED <<cronVars, hbVars, agentVars, engVars, msVars, encVars, chVars, hnVars, tlVars, auxVars>>]_vars
\* Rows with their updated_at: Add and Update stamp a row with the time of the
\* write, so the stamps either follow the order in which the rows were inserted
\* or, after updates of the older rows, run against it.
StampOrders == {"inserted", "updated"}
StampedItem(user, emb, updated, deleted) ==
    [user |-> user, category |-> "", emb |-> emb, score |-> 100, access |-> 0,
     deleted |-> deleted, updated |-> updated]
RankTables ==
    {[id \in MemIds |->
        StampedItem(users[id], embs[id],
                    IF order = "inserted" THEN id ELSE MaxMems + 1 - id,
                    id \in gone)] :
       users \in [MemIds -> MemUsers], embs \in [MemIds -> Vectors],
       order \in StampOrders, gone \in {{}, {1}}}

\* The result lists Search can return: the scanned rows at least minScore
\* similar to the query, sorted by sort.Slice on similarity alone (the query has
\* no ORDER BY and the sort is not stable, so rows of equal similarity come in
\* any order), cut to topK.
SearchRanked(items, query, user, topK, minScore) ==
    LET sim(id) == CosineSimilarity(query, items[id].emb)
        cand == {id \in SearchRows(items, user) : SimGE(sim(id), minScore)}
        n == Cardinality(cand)
        size == IF n > topK THEN topK ELSE n
        sorted == {s \in [1..n -> cand] :
                     /\ \A i, j \in 1..n : i # j => s[i] # s[j]
                     /\ \A i, j \in 1..n : i < j => SimGE(sim(s[i]), sim(s[j]))}
    IN {SubSeq(s, 1, size) : s \in sorted}

\* Search with its result as the ordered list it returns; one call on a table.
RankedSearch(query, user, topK, minScore) ==
    /\ memOps = 0
    /\ memOps' = 1
    /\ \E r \in SearchRanked(memItems, query, user, topK, minScore) :
          /\ memPending' = [id \in MemIds |->
                               IF \E i \in 1..Len(r) : r[i] = id THEN memPending[id] + 1
                               ELSE memPending[id]]
          /\ memLast' = [op |-> "ranked", user |-> user, query |-> query, topK |-> topK,
                         minScore |-> minScore, results |-> r]
    /\ UNCHANGED memItems

RankNext ==
    \/ \E query \in Queries, user \in MemUsers, topK \in TopKs, minScore \in MinScores :
          RankedSearch(query, user, topK, minScore)
    \/ \E id \in MemIds : IncrementAccess(id)

InitRank == CronInit /\ HbIdle /\ AgentIdle /\ MemInitWith(RankTables) /\ EngInit /\ MsIdle /\ EncIdle /\ ChIdle /\ HnInit /\ TlIdle /\ AuxIdle
SpecRank ==
    InitRank /\ [][RankNext /\ UNCHANGED <<cronVars, hbVars, agentVars, engVars, msVars, encVars, chVars, hnVars, tlVars, auxVars>>]_vars
InitFact == CronInit /\ HbIdle /\ AgentIdle /\ MemInitWith(FactTables) /\ EngInit /\ MsIdle /\ EncIdle /\ ChIdle /\ HnInit /\ TlIdle /\ AuxIdle
SpecFact ==
    InitFact /\ [][FactNext /\ UNCHANGED <<cronVars, hbVars, agentVars, engVars, msVars, encVars, chVars, hnVars, tlVars, auxVars>>]_vars
SpecEngine ==
    Init /\ [][EngineNext /\ UNCHANGED <<cronVars, hbVars, agentVars, msVars, encVars, chVars, hnVars, tlVars, auxVars>>]_vars
InitSwitcher == CronInit /\ HbIdle /\ AgentIdle /\ MemInit /\ EngInit /\ MsInit /\ EncIdle /\ ChIdle /\ HnInit /\ TlIdle /\ AuxIdle
InitEncoding == CronInit /\ HbIdle /\ AgentIdle /\ MemInit /\ EngInit /\ MsIdle /\ EncInit /\ ChIdle /\ HnInit /\ TlIdle /\ AuxIdle
SpecEncoding ==
    InitEncoding /\ [][EncodingNext /\ UNCHANGED <<cronVars, hbVars, agentVars, memVars, engVars, msVars, chVars, hnVars, tlVars, auxVars>>]_vars
InitChannel == CronInit /\ HbIdle /\ AgentIdle /\ MemInit /\ EngInit /\ MsIdle /\ EncIdle /\ ChInit /\ HnInit /\ TlIdle /\ AuxIdle
SpecChannel ==
    InitChannel /\ [][ChannelNext /\ UNCHANGED <<cronVars, hbVars, agentVars, memVars, engVars, msVars, encVars, hnVars, tlVars, auxVars>>]_vars
InitNotes ==
    CronInit /\ HbIdle /\ AgentIdle /\ MemInit /\ EngInit /\ MsIdle /\ EncIdle /\ ChIdle
       /\ HnInitWith(BOOLEAN, SaveOutcomes) /\ TlIdle /\ AuxIdle
SpecNotes ==
    InitNotes /\ [][NotesNext /\ UNCHANGED <<cronVars, hbVars, agentVars, memVars, engVars, msVars, encVars, chVars, tlVars, auxVars>>]_vars
InitTools ==
    CronInit /\ HbIdle /\ AgentIdle /\ MemInit /\ EngInit /\ MsIdle /\ EncIdle /\ ChIdle /\ HnInit
       /\ ToolsInit({ToolIters}, ToolCallLists) /\ AuxIdle
\* A long run of the loop with a provider that keeps asking for one tool.
InitToolOnly ==
    CronInit /\ HbIdle /\ AgentIdle /\ MemInit /\ EngInit /\ MsIdle /\ EncIdle /\ ChIdle /\ HnInit
       /\ ToolsInit({ToolOnlyIters}, ShortCallLists) /\ AuxIdle
SpecTools ==
    InitTools /\ [][ToolsNext /\ UNCHANGED <<cronVars, hbVars, agentVars, memVars, engVars, msVars, encVars, chVars, hnVars, auxVars>>]_vars
SpecToolOnly ==
    InitToolOnly /\ [][ToolsNext /\ UNCHANGED <<cronVars, hbVars, agentVars, memVars, engVars, msVars, encVars, chVars, hnVars, auxVars>>]_vars
SpecSwitcher ==
    InitSwitcher /\ [][SwitcherNext /\ UNCHANGED <<cronVars, hbVars, agentVars, memVars, engVars, encVars, chVars, hnVars, tlVars, auxVars>>]_vars
CoreIdle ==
    CronInit /\ HbIdle /\ AgentIdle /\ MemInit /\ EngInit /\ MsIdle /\ EncIdle /\ ChIdle /\ HnInit /\ TlIdle
coreVars == <<cronVars, hbVars, agentVars, memVars, engVars, msVars, encVars, chVars, hnVars, tlVars>>
InitStream == CoreIdle /\ PsInit /\ ExIdle /\ SmIdle /\ GdIdle /\ CcIdle /\ TkIdle
SpecStream ==
    InitStream /\ [][StreamNext /\ UNCHANGED <<coreVars, exVars, smVars, gdVars, ccVars, tkVars>>]_vars
InitExtract == CoreIdle /\ PsIdle /\ ExInit /\ SmIdle /\ GdIdle /\ CcIdle /\ TkIdle
SpecExtract ==
    InitExtract /\ [][ExtractNext /\ UNCHANGED <<coreVars, psVars, smVars, gdVars, ccVars, tkVars>>]_vars
InitSummarize ==
    CronInit /\ HbIdle /\ SummarizeInit /\ MemInit /\ EngInit /\ MsIdle /\ EncIdle /\ ChIdle /\ HnInit /\ TlIdle
       /\ PsIdle /\ ExIdle /\ GdIdle /\ CcIdle /\ TkIdle
SpecSummarize ==
    InitSummarize /\ [][SummarizeNext /\ UNCHANGED <<cronVars, hbVars, memVars, engVars, msVars, encVars, chVars, hnVars, tlVars, psVars, exVars, gdVars, ccVars, tkVars>>]_vars
InitGuard == CoreIdle /\ PsIdle /\ ExIdle /\ SmIdle /\ GdIdle /\ CcIdle /\ TkIdle
SpecGuard ==
    InitGuard /\ [][GuardNext /\ UNCHANGED <<cronVars, hbVars, agentVars, msVars, encVars, chVars, hnVars, tlVars, psVars, exVars, smVars, ccVars, tkVars>>]_vars
InitConcurrent ==
    CronInit /\ HbIdle /\ AgentIdle /\ MemInit /\ EngInit /\ MsInit /\ EncIdle /\ ChIdle /\ HnInit /\ TlIdle
       /\ PsIdle /\ ExIdle /\ SmIdle /\ GdIdle /\ CcInit /\ TkIdle
SpecConcurrent ==
    InitConcurrent /\ [][ConcurrentNext /\ UNCHANGED <<cronVars, hbVars, agentVars, memVars, engVars, encVars, chVars, hnVars, tlVars, psVars, exVars, smVars, gdVars, tkVars>>]_vars
InitTicker == CoreIdle /\ PsIdle /\ ExIdle /\ SmIdle /\ GdIdle /\ CcIdle /\ TkInit
SpecTicker ==
    InitTicker /\ [][TickerNext /\ UNCHANGED <<coreVars, psVars, exVars, smVars, gdVars, ccVars>>]_vars
\* The agent loop goroutine keeps running: a step of Run / processMessage that
\* is possible is eventually taken.
SpecLoopLive == SpecLoop /\ WF_vars(LoopNext /\ UNCHANGED <<cronVars, hbVars, extVars>>)

(***************************************************************************)
(* Claims about the cron scheduler                                         *)
(***************************************************************************)
\* A step in which checkJobs hands job id to an executor.
Dispatched(id) == cronFired'[id] > cronFired[id]
\* A step in which the handler of job id returns and the trailing update runs.
Completed(id) == cronRunning'[id] < cronRunning[id]

\* C1 -- Scheduler exclusivity: while the handler of a job is executing, no tick
\* starts a second
\* handler for it: at most one executor per job exists at any time, and each
\* dispatch of an Every job is for a due time strictly later than that of its
\* previous dispatch (once per due time, not once per tick).
C1_SchedulerExclusivity ==
    /\ [](\A id \in JobIds : cronRunning[id] <= 1)
    /\ [][\A id \in JobIds :
            (Dispatched(id) /\ cronJobs[id].kind = "every")
               => /\ cronRunning[id] = 0 /\ ~cronInflight[id]
                  /\ cronJobs[id].next > cronLastDue[id]]_vars

\* C1 witness: a tick arrived while the handler of a due Every job was running and
\* skipped it; the job has been dispatched exactly once.
C1_Witness ==
    \E id \in JobIds :
        /\ cronRunning[id] = 1
        /\ id \in cronSkipped
        /\ cronJobs[id] # NoJob
        /\ cronJobs[id].kind = "every"
        /\ IsDue(cronJobs[id], cronNow)
        /\ cronFired[id] = 1

C4_EveryReschedules ==
    [][\A id \in JobIds :
          /\ (Completed(id) /\ cronJobs[id] # NoJob /\ cronJobs[id].kind = "every")
                => /\ cronJobs'[id].enabled = cronJobs[id].enabled
                   /\ cronJobs'[id].next # Null
                   /\ cronJobs'[id].next = cronNow + cronJobs[id].ms
                   /\ cronJobs'[id].next > cronNow
          /\ Dispatched(id) => (cronJobs[id].next # Null /\ cronJobs[id].next <= cronNow)]_vars

\* C4 witness: an enabled Every job has fired, its handler has returned, and the
\* job is enabled and scheduled at completion time + interval, in the future.
C4_Witness ==
    \E id \in JobIds :
        /\ cronJobs[id] # NoJob
        /\ cronJobs[id].kind = "every"
        /\ cronFired[id] >= 1
        /\ cronDoneAt[id] # Null
        /\ cronRunning[id] = 0
        /\ cronJobs[id].enabled
        /\ cronJobs[id].next = cronDoneAt[id] + cronJobs[id].ms
        /\ cronJobs[id].next > cronNow

\* C5 -- Removal during execution: a removed job is never in the store again;
\* the trailing update of an executor whose job was removed meanwhile leaves the
\* store as it is.
C5_RemovedStaysRemoved ==
    /\ [](cronRemoved \cap ListJobs(TRUE) = {})
    /\ [][\A id \in JobIds :
            (Completed(id) /\ cronJobs[id] = NoJob) => cronJobs' = cronJobs]_vars

\* C5 witness: a job was removed while its handler was running, and the handler
\* has since returned and released the flag; the job is not listed.
C5_Witness ==
    \E id \in cronRemovedRunning :
        /\ cronRunning[id] = 0
        /\ ~cronInflight[id]
        /\ cronDoneAt[id] # Null
        /\ id \notin ListJobs(TRUE)

PersistedEntries == Range(sessPersisted.history)
Consumed(m) == m < busNextMsg /\ m \notin Range(busInbound)
Truncated == sessAppended \ Range(sessHistory)
StrictlyIncreasing(seq) == \A i, j \in 1..Len(seq) : i < j => seq[i] < seq[j]

C8_NoMessageLost ==
    \A e \in sessAppended :
        EntryTokens(e) <= alContextWindow \div 2
           => (e \in Range(sessHistory) \/ e \in sessSummary.covers)

\* C9 -- One response per inbound message: a turn publishes its final result at
\* most once; a finished turn ended with the model's text or with one error
\* string and published exactly one final message; an unfinished turn has
\* published none; the other outbound messages of a turn are thinking previews,
\* at most one per LLM call.
C9_OneResponse ==
    \A m \in Msgs :
        /\ busOutbound[m].final <= 1
        /\ alResult[m] \in {"text", "error"} <=> busOutbound[m].final = 1
        /\ ~Consumed(m) => busOutbound[m] = NoOutbound
        /\ (m = alMsg) => busOutbound[m].thinking <= alChatCalls

\* C9 witness: one turn ended in an LLM error and one with the model's answer
\* after a thinking preview; each has exactly one final outbound message.
C9_Witness ==
    \E m1, m2 \in Msgs :
        /\ alResult[m1] = "error" /\ busOutbound[m1].final = 1
        /\ alResult[m2] = "text" /\ busOutbound[m2].final = 1
        /\ busOutbound[m2].thinking >= 1

\* C10 -- Bounded tool loop: whatever the model returns, processMessage makes at
\* most max_tool_iterations LLM calls for one inbound message, one per pass
\* through the loop and only while the count is below the bound, and the turn
\* then ends with a response that is published (the answer, a default text, or
\* the message of a failed call).
C10_BoundedToolLoop ==
    /\ [](alChatCalls <= alMaxIterations /\ alChatCalls = alIteration)
    /\ [][alChatCalls' > alChatCalls
            => (alChatCalls' = alChatCalls + 1 /\ alChatCalls < alMaxIterations)]_vars
    /\ \A m \in Msgs :
          (alPc = "llm" /\ alMsg = m) ~> (alPc = "idle" /\ busOutbound[m].final = 1)

\* C10 witness: a model that answered every call with tool calls has used up all
\* of a positive iteration bound and the loop has ended with the default
\* response.
C10_Witness ==
    /\ alMaxIterations > 0
    /\ alChatCalls = alMaxIterations
    /\ alPc = "addUser"
    /\ alFinal = ""
    /\ finalContent = "noresponse"

(***************************************************************************)
(* Claims about the heartbeat service                                      *)
(***************************************************************************)
HbInFlight == {t \in HbThreads : hbPc[t] = "handler"}

\* C2 -- Heartbeat overlap guard: at every moment at most one onHeartbeat
\* invocation is in flight, and the processing flag is set while it is; a
\* checkHeartbeat that reaches the guard while another is processing returns
\* without invoking the handler.
C2_HeartbeatNoOverlap ==
    /\ [](Cardinality(HbInFlight) <= 1 /\ (HbInFlight # {} => hbProcessing))
    /\ [][\A t \in HbThreads :
            (hbPc[t] = "cas" /\ hbProcessing)
               => (hbPc'[t] # "handler" /\ hbCalls' = hbCalls)]_vars

\* C2 witness: one handler is in flight, it is the only invocation so far, and a
\* second checkHeartbeat has arrived meanwhile and was skipped.
C2_Witness ==
    /\ Cardinality(HbInFlight) = 1
    /\ hbCalls = 1
    /\ hbSkipped >= 1

\* C22: heartbeat guard release.  Once the handler has returned, with success
\* or with an error, the processing flag is clear: it is set only while a
\* handler runs.  So a checkHeartbeat of a started, enabled service that
\* reaches the guard while no handler runs takes the flag and invokes the
\* handler, whatever the earlier handlers returned.
C22_GuardRelease ==
    /\ []((HbInFlight = {}) => ~hbProcessing)
    /\ [][\A t \in HbThreads :
            (hbPc[t] = "cas" /\ HbInFlight = {} /\ hbPc'[t] # "cas")
               => (hbPc'[t] = "handler" /\ hbProcessing' /\ hbCalls' = hbCalls + 1)]_vars
C22_Witness ==
    /\ hbLastResult = "error"
    /\ hbCalls >= 2
    /\ HbInFlight # {}

(***************************************************************************)
(* Claims about the memory store                                           *)
(***************************************************************************)
Rows == {id \in MemIds : memItems[id] # NoMem}
StoreCall(op) == memOps' = memOps + 1 /\ memLast'.op = op

\* C12 -- Partition isolation: whatever Add, Update, Delete and Prune calls
\* were made for several users, a Search for user u1 returns only memories whose
\* user_id is u1.
C12_PartitionIsolation ==
    memLast.op = "search"
       => \A id \in memLast.ids : id \in Rows /\ memItems[id].user = memLast.user

\* C12 witness: a Search returned a memory of its user while another user has
\* an active memory with an embedding in the store.
C12_Witness ==
    /\ memLast.op = "search"
    /\ memLast.ids # {}
    /\ \E id \in Rows :
          /\ memItems[id].user # memLast.user
          /\ ~memItems[id].deleted
          /\ memItems[id].emb # NilEmbedding

C14_SoftDeleteAbsorbing ==
    /\ [][\A id \in Rows : memItems[id].deleted
             => (memItems'[id] # NoMem /\ memItems'[id].deleted)]_vars
    /\ [](memLast.op \in {"search", "getByUser"}
             => \A id \in memLast.ids : id \in Rows /\ ~memItems[id].deleted)
    /\ [](memLast.op = "getStats"
             => memLast.total = Cardinality({id \in Rows : memItems[id].user = memLast.user
                                                            /\ ~memItems[id].deleted}))
    /\ [][(StoreCall("update") /\ memLast'.id \in Rows /\ memItems[memLast'.id].deleted)
             => (memLast'.err /\ memItems' = memItems)]_vars

\* C14 witness: an Update of a soft-deleted memory that had an embedding has
\* just failed, and the memory is still deleted.
C14_Witness ==
    /\ memLast.op = "update"
    /\ memLast.wasDeleted
    /\ memLast.err
    /\ memItems[memLast.id].deleted
    /\ memItems[memLast.id].emb # NilEmbedding

(***************************************************************************)
(* Claims about the memory engine                                          *)
(***************************************************************************)
\* The goroutines that are past the guard of ProcessConversation.
InFlight == {t \in EngThreads : engPc[t] # "idle"}

\* C11: per-user single-flight.  At no time are two pipelines past the guard
\* for the same user; the guard holds exactly the users of the pipelines in
\* flight, so it is released on every exit path (extraction error, zero facts,
\* per-fact errors, prune error) and a later call for that user can proceed;
\* and a pipeline writes for a user only after the pipeline that wrote for that
\* user before it has returned, so the writes of two turns never interleave.
\* (A call that finds the guard taken is dropped, not queued.)
C11_SingleFlight ==
    /\ [](\A t1, t2 \in InFlight : engUser[t1] = engUser[t2] => t1 = t2)
    /\ [](engProcessing = {engUser[t] : t \in InFlight})
    /\ [][\A u \in MemUsers :
             engWriter'[u] # engWriter[u] =>
                ~\E t \in InFlight : engRun[t] = engWriter[u]]_vars
C11_Witness ==
    /\ engSkipped >= 1
    /\ engLastExit = "pruneError"
    /\ engWriter["u1"] # 0
    /\ engWriter["u2"] = 0
    /\ \E t \in InFlight : engUser[t] = "u1" /\ engRun[t] > engWriter["u1"]

\* A step in which processFact of goroutine t executes the consolidator's decision.
ExecuteStep(t) == engPc[t] = "consolidate" /\ engPc'[t] # "consolidate"

\* C30: when the similarity search of a fact found nothing, Consolidate returns
\* ADD and calls no LLM, and the table gains exactly one row, a live memory of
\* the pipeline's user with the fact's category, importance and embedding,
\* unless the INSERT fails and leaves the table as it was.
C30_ConsolidationShortCircuit ==
    [][\A t \in EngThreads :
          (ExecuteStep(t) /\ engSimilar[t] = {}) =>
             /\ engLast'.action = "ADD"
             /\ engLast'.llmCalls = 0
             /\ \/ memItems' = memItems
                \/ \E id \in MemIds :
                      /\ memItems[id] = NoMem
                      /\ memItems'[id] =
                            [user |-> engUser[t], category |-> engLast'.fact.Category,
                             emb |-> engEmb[t], score |-> engLast'.fact.Importance,
                             access |-> 0, deleted |-> FALSE]
                      /\ \A other \in MemIds \ {id} : memItems'[other] = memItems[other]]_vars
\* A fact of a user without memories was added without an LLM call, next to
\* another user's memory.
C30_Witness ==
    /\ engLast.action = "ADD"
    /\ engLast.llmCalls = 0
    /\ \E id, other \in MemIds :
          /\ memItems[id] # NoMem /\ memItems[other] # NoMem
          /\ memItems[id].category = engLast.fact.Category
          /\ memItems[id].score = engLast.fact.Importance
          /\ memItems[other].user # memItems[id].user

\* A call of processFact that has just returned.
FactStep == memOps' = memOps + 1 /\ memLast'.op = "processFact"
\* The consolidation LLM was consulted and its answer does not parse, names an
\* unknown action, or is an UPDATE without target or without merged content.
FallbackReply(call) ==
    /\ call.similar # {}
    /\ \/ call.reply[1] = "unknown"
       \/ call.reply[1] = "UPDATE" /\ (call.reply[2] = NoTargetID \/ ~call.reply[3])
\* The table gained the row of the call's fact and nothing else changed.
FactAdded(call) ==
    \E id \in MemIds :
       /\ memItems[id] = NoMem
       /\ memItems'[id] = [user |-> call.user, category |-> call.fact.Category,
                           emb |-> call.emb, score |-> call.fact.Importance,
                           access |-> 0, deleted |-> FALSE]
       /\ \A other \in MemIds \ {id} : memItems'[other] = memItems[other]

\* C31: when the consolidation LLM's answer cannot be parsed, names an unknown
\* action, or is UPDATE without target_id or without merged_content, the fact
\* is stored as a new memory and no existing memory is modified or deleted;
\* when the INSERT fails, processFact returns the error and the table is
\* unchanged.
C31_ConsolidationFallback ==
    [][(FactStep /\ FallbackReply(memLast')) =>
          IF memLast'.err THEN memItems' = memItems ELSE FactAdded(memLast')]_vars
\* An UPDATE that named a target but carried no merged content was stored as a
\* second memory of the user, next to the target.
C31_Witness ==
    /\ memLast.op = "processFact"
    /\ memLast.reply = <<"UPDATE", 1, FALSE>>
    /\ memLast.similar = {1}
    /\ ~memLast.err
    /\ memItems[2] # NoMem
    /\ memItems[2].user = memLast.user
    /\ memItems[1].emb = <<1, 0>>

\* C32: a processFact call for a user never changes the embedding or the
\* deleted flag of a memory of another user, whatever target the consolidation
\* LLM names.
C32_ConsolidationOwnership ==
    [][FactStep =>
          \A id \in MemIds :
             (memItems[id] # NoMem /\ memItems[id].user # memLast'.user) =>
                /\ memItems'[id].emb = memItems[id].emb
                /\ memItems'[id].deleted = memItems[id].deleted]_vars

\* What the last ranked Search returned, and the similarity of a row to its query.
RankedCall == memLast.op = "ranked"
RankSim(id) == CosineSimilarity(memLast.query, memItems[id].emb)
RankEligible ==
    {id \in SearchRows(memItems, memLast.user) : SimGE(RankSim(id), memLast.minScore)}
RankTie(a, b) == SimGE(RankSim(a), RankSim(b)) /\ SimGE(RankSim(b), RankSim(a))

\* C33: Search returns at most topK results, each at least minScore similar,
\* the most similar eligible rows of the user in descending order of
\* similarity, rows of equal similarity ordered (and cut) by most recent
\* updated_at.
C33_SearchRanking ==
    RankedCall =>
       LET r == memLast.results
           got == {r[i] : i \in 1..Len(r)}
       IN /\ Len(r) <= memLast.topK
          /\ got \subseteq RankEligible
          /\ Len(r) = Cardinality(got)
          /\ Len(r) = memLast.topK \/ got = RankEligible
          /\ \A i, j \in 1..Len(r) : i < j =>
                /\ SimGE(RankSim(r[i]), RankSim(r[j]))
                /\ RankTie(r[i], r[j]) => memItems[r[i]].updated >= memItems[r[j]].updated
          /\ \A in \in got, out \in RankEligible \ got :
                /\ SimGE(RankSim(in), RankSim(out))
                /\ RankTie(in, out) => memItems[in].updated >= memItems[out].updated

(***************************************************************************)
(* Claims about the provider adapter and the extractor                     *)
(***************************************************************************)
\* What a stream says about one index: the last non-empty id and function name
\* sent for it and its argument fragments in arrival order.
RECURSIVE LastId(_, _)
LastId(stream, i) ==
    IF stream = <<>> THEN ""
    ELSE LET tc == stream[Len(stream)]
         IN IF tc.index = i /\ tc.id # "" THEN tc.id
            ELSE LastId(SubSeq(stream, 1, Len(stream) - 1), i)
RECURSIVE LastName(_, _)
LastName(stream, i) ==
    IF stream = <<>> THEN ""
    ELSE LET tc == stream[Len(stream)]
         IN IF tc.index = i /\ tc.function # NoFunction /\ tc.function.name # ""
            THEN tc.function.name
            ELSE LastName(SubSeq(stream, 1, Len(stream) - 1), i)
RECURSIVE ArgumentText(_, _)
ArgumentText(stream, i) ==
    IF stream = <<>> THEN <<>>
    ELSE (IF Head(stream).index = i /\ Head(stream).function # NoFunction
          THEN Head(stream).function.arguments ELSE <<>>) \o ArgumentText(Tail(stream), i)
RECURSIVE Ascending(_)
Ascending(indices) ==
    IF indices = {} THEN <<>>
    ELSE LET least == CHOOSE i \in indices : \A j \in indices : i <= j
         IN <<least>> \o Ascending(indices \ {least})
SeenIndices == {psStream[k].index : k \in 1..Len(psStream)}
StreamEnded == psResponse # NoResponseYet

\* C34: the response holds exactly one tool call per index seen in the stream,
\* in ascending index order, with the last non-empty id and name sent for the
\* index and the arguments parsed from the concatenation of its fragments.
C34_AccumulationByIndex ==
    StreamEnded =>
       LET order == Ascending(SeenIndices)
       IN /\ Len(psResponse) = Len(order)
          /\ \A k \in 1..Len(order) :
                /\ psResponse[k].ID = LastId(psStream, order[k])
                /\ psResponse[k].Name = LastName(psStream, order[k])
                /\ psResponse[k].Arguments =
                      UnmarshalArguments(ArgumentText(psStream, order[k]))

\* C35: Extract returns at most five facts, each with a content and an
\* importance within [0, 1], and no fact and no error when the response does
\* not parse.
C35_ExtractBounded ==
    exResult # NotReturned =>
       /\ Len(exResult.facts) <= 5
       /\ \A k \in 1..Len(exResult.facts) :
             /\ exResult.facts[k].content # ""
             /\ exResult.facts[k].importance >= 0
             /\ exResult.facts[k].importance <= 100
       /\ (exMessages > 0 /\ exReply.kind = "unparsable") =>
             exResult.facts = <<>> /\ ~exResult.err
C35_Witness ==
    /\ exResult # NotReturned
    /\ exMessages > 0
    /\ exReply.kind = "array"
    /\ Len(ValidFacts(exReply.facts)) > 5
    /\ \E k \in 1..5 : exReply.facts[k].content # "" /\ exReply.facts[k].importance > 100
    /\ Len(exResult.facts) = 5

\* C36: when every LLM call of a summarizeSession run has failed, the
\* session's summary and history are as the run found them.
C36_FailedSummarization ==
    (smCalls # NoCalls /\ smCalls.failed) =>
       sessHistory = smCalls.history /\ sessSummary = smCalls.summary

\* C37: a ProcessConversation call that finds a call for the same user in
\* flight returns at once: no goroutine enters the pipeline, nothing is written
\* and nothing is left behind for later; a call for a user with no call in
\* flight enters the pipeline whatever the guard holds for other users.
C37_OverlapDropped ==
    [][engCalls' = engCalls + 1 =>
          IF gdCall'.held
          THEN /\ engPc' = engPc
               /\ engProcessing' = engProcessing
               /\ <<engUser, engRun, engFacts, engWriter, engTurns>>' =
                     <<engUser, engRun, engFacts, engWriter, engTurns>>
               /\ memVars' = memVars
          ELSE /\ engPc'[gdCall'.thread] = "extract"
               /\ engUser'[gdCall'.thread] = gdCall'.user]_vars
C37_Witness ==
    /\ gdCall # NoGuardCall
    /\ gdCall.held
    /\ engPc[gdCall.thread] = "idle"
    /\ \E t \in InFlight : engUser[t] = gdCall.user
    /\ engSkipped = 1

\* The callers that got a rate limit and are past switchToNext.
PastSwitch(c) == ccCall[c].first = "rateLimit" /\ ccCall[c].pc \in {"retry", "done"}

\* C38: when two concurrent Chat calls both get a rate limit from the same
\* current model, the current model ends one position further in the chain
\* and both retries go to that model.
C38_OneSwitch ==
    ((\A c \in Callers : PastSwitch(c)) /\ ccCall["c1"].model = ccCall["c2"].model) =>
       LET model == ccCall["c1"].model
           sw == switchToNext(msFallbackModels, msCreatable, model, model, NotLimited,
                              YearDay(msNow))
       IN /\ msCurrentModel = sw.state.model
          /\ \A c \in Callers : ccCall[c].retry # NoModel => ccCall[c].retry = sw.state.model

\* The ticker loops that go on for the service as it runs now: not returned,
\* and with the current stop channel as the one their select waits on.
TickingLoops ==
    {l \in 1..Len(tkLoops) : tkLoops[l].pc # "exited" /\ tkLoops[l].read = tkStopChan}

\* C40: whatever Start and Stop calls were made, at most one ticker loop goes
\* on for the running service; Start on a running service and Start on a
\* disabled service start no loop, the latter with an error; after Stop the
\* service is not running.
C40_SingleTicker ==
    /\ tkRunning => Cardinality(TickingLoops) <= 1
    /\ (tkLast.op = "Start" /\ (tkLast.running \/ ~tkEnabled)) =>
          /\ Len(tkLoops) = tkLast.loops
          /\ tkLast.err = ~tkLast.running
    /\ tkLast.op = "Stop" => ~tkRunning

(***************************************************************************)
(* Claims about the model switcher                                         *)
(***************************************************************************)
\* A Chat call changes the switcher or the record of the last call; the clock
\* stands still during it.
ChatStep == msNow' = msNow /\ msVars' # msVars

\* C15: model switch cycle.  After rate limits moved the switcher off the
\* primary on day D, any Chat call made on a later day first resets the current
\* model and provider to the primary: the request is attempted on the primary.
C15_ModelSwitchCycle ==
    [][(/\ ChatStep
        /\ msCurrentModel # primaryModel
        /\ msSwitchDate >= 0
        /\ msNow > msSwitchDate)
       => (msLast'.model = primaryModel /\ msLast'.provider = primaryModel)]_vars

\* C39: in every reachable state the current model is the primary or an entry
\* of the fallback list, and the rate-limit day is set whenever the current
\* model is not the primary; so a Chat call on a day of the year other than the
\* rate-limit day resets to the primary and makes its request there.
C39_SwitcherInvariant ==
    /\ [](\/ msCurrentModel = primaryModel
          \/ \E i \in 1..Len(msFallbackModels) : msFallbackModels[i] = msCurrentModel)
    /\ [](msCurrentModel # primaryModel => msRateLimitDay >= 0)
    /\ [][(ChatStep /\ msCurrentModel # primaryModel /\ YearDay(msNow) # msRateLimitDay)
            => msLast'.model = primaryModel]_vars
C39_Witness ==
    /\ msFallbackModels = <<"fb1", "fb2">>
    /\ msCurrentModel = "fb2"
    /\ msRateLimitDay = YearDay(msNow)
    /\ msLast.switched
    /\ msNow > 0

C17_FallbackChainOrder ==
    /\ msPos > 0 =>
          (msPos <= Len(msFallbackModels) /\ msCurrentModel = msFallbackModels[msPos])
    /\ (msLast.first = "rateLimit" /\ msLast.pos = Len(msFallbackModels)) =>
          (/\ ~msLast.switched
           /\ msCurrentModel = msLast.model
           /\ msCurrentProvider = msLast.provider
           /\ msRateLimitDay = msLast.day)
    /\ msLast.first = "error" =>
          (~msLast.switched /\ msCurrentModel = msLast.model)

(***************************************************************************)
(* Claims about the embedding encoding                                     *)
(***************************************************************************)
\* C18: encoding round trip.  The encoded vector holds 4 bytes per element,
\* the element's 32-bit word lowest byte first; decoding it gives a vector of
\* the same length and the same elements; an empty or nil vector encodes to
\* nil, which decodes to nil.
C18_EncodingRoundTrip ==
    /\ encPc \in {"encoded", "decoded"} =>
          /\ Len(encBlob.elems) = 4 * Len(encIn.elems)
          /\ \A i \in 1..Len(encIn.elems) :
                /\ encBlob.elems[4 * i - 3] + 256 * encBlob.elems[4 * i - 2] = encIn.elems[i].lo
                /\ encBlob.elems[4 * i - 1] + 256 * encBlob.elems[4 * i] = encIn.elems[i].hi
                /\ \A k \in (4 * i - 3)..(4 * i) : encBlob.elems[k] \in 0..255
          /\ Len(encIn.elems) = 0 => encBlob.isNil
    /\ encPc = "decoded" =>
          /\ Len(encOut.elems) = Len(encIn.elems)
          /\ \A i \in 1..Len(encIn.elems) : encOut.elems[i] = encIn.elems[i]
          /\ Len(encIn.elems) = 0 => encOut.isNil
C18_Witness ==
    /\ encPc = "decoded"
    /\ Len(encIn.elems) = 2
    /\ encIn.elems[1] = Word(258, 772)
    /\ encIn.elems[2] = Word(48896, 0)
    /\ encBlob.elems = <<4, 3, 2, 1, 0, 0, 0, 191>>
    /\ encOut = encIn

(***************************************************************************)
(* Claims about the channel base                                           *)
(***************************************************************************)
HasBar(senderID) == \E i \in 1..Len(senderID) : senderID[i] = "|"
\* The part of a sender id before its first "|".
PartBeforeBar(senderID) ==
    LET first == CHOOSE i \in 1..Len(senderID) :
                     senderID[i] = "|" /\ \A j \in 1..(i - 1) : senderID[j] # "|"
    IN SubSeq(senderID, 1, first - 1)
\* Every message in the inbound queue comes from an allowed sender and has
\* session_key = channel + ":" + chat_id.
QueueGated ==
    \A i \in 1..Len(chInbound) :
       /\ IsAllowed(chAllowList, chInbound[i].SenderID)
       /\ chInbound[i].Channel = chName
       /\ chInbound[i].SessionKey = chName \o <<":">> \o chInbound[i].ChatID

\* C19 as stated: HandleMessage publishes exactly when the allow list is empty
\* or the whole sender id, or its part before the first "|", is an entry.
C19_AllowListGateAsStated ==
    /\ chHandled > 0 =>
          (chLast.published <=>
             \/ chAllowList = {}
             \/ chLast.sender \in chAllowList
             \/ HasBar(chLast.sender) /\ PartBeforeBar(chLast.sender) \in chAllowList)
    /\ QueueGated

\* C19, amended: HandleMessage publishes exactly when the allow list is empty
\* or the whole sender id, or its non-empty part before the first "|", is an
\* entry; nothing else reaches the inbound queue; and every published message
\* has session_key = channel + ":" + chat_id.
C19_AllowListGate ==
    /\ chHandled > 0 =>
          (chLast.published <=>
             \/ chAllowList = {}
             \/ chLast.sender \in chAllowList
             \/ /\ HasBar(chLast.sender)
                /\ PartBeforeBar(chLast.sender) # <<>>
                /\ PartBeforeBar(chLast.sender) \in chAllowList)
    /\ chHandled > 0 =>
          (chLast.published <=> IsAllowed(chAllowList, chLast.sender))
    /\ Len(chInbound) <= chHandled
    /\ (chHandled > 0 /\ ~chLast.published) =>
          \A i \in 1..Len(chInbound) : chInbound[i].SenderID # chLast.sender
    /\ QueueGated
C19_Witness ==
    /\ chAllowList = {<<"a">>}
    /\ chLast = [sender |-> <<"a", "|">>, published |-> TRUE]
    /\ Len(chInbound) = 1
    /\ chInbound[1].SessionKey = <<"t", "g", ":", "2">>

(***************************************************************************)
(* Claims about the heartbeat notes                                        *)
(***************************************************************************)
\* C20: persistence errors are reported.  A failed write of the store file
\* shows in what AddNote, RemoveNote or EnableNote returns: a call whose write
\* failed does not return its success value (the note, or true), and after a
\* call that returned it the file holds the notes of the store.
C20_PersistenceErrorsReported ==
    /\ hnLast.wrote = "failed" => hnLast.returned = "error"
    /\ hnLast.returned \in {"note", "true"} =>
          (hnFile # NoFile /\ hnFile.Notes.elems = hnNotes.elems)

TriggerStep == alPc = "compress" /\ alPc' = "save"

\* C28: the session's key is in al.summarizing exactly while a
\* summarizeSession run is in progress; a trigger that fires during a run
\* leaves the run alone and starts no other; the key is removed whenever a run
\* ends; and a trigger that fires when no run is in progress starts one.
C28_SummarizationSingleFlight ==
    /\ [](alSummarizing <=> sumPc # "idle")
    /\ [][(TriggerStep /\ sumPc # "idle") => UNCHANGED <<sumVars, alSummarizing>>]_vars
    /\ [][(sumPc # "idle" /\ sumPc' = "idle") => ~alSummarizing']_vars
    /\ [][(TriggerStep /\ CompressionDue(sessHistory) /\ sumPc = "idle")
             => (sumPc' = "start" /\ alSummarizing')]_vars
\* The trigger of a turn has fired while a run that started in an earlier turn
\* was waiting for the LLM: the run's target does not reach the turn before
\* the previous one.
C28_Witness ==
    /\ alPc = "save"
    /\ CompressionDue(sessHistory)
    /\ alSummarizing
    /\ sumPc = "llm"
    /\ alMsg > 2
    /\ AssistantEntry(alMsg - 2) \notin Range(sumValid)
\* A run that starts after an earlier run has completed.
LaterRunStarted == sumPc = "start" /\ sessSummary.text

\* The last entry appended to the session so far (0: none).
LastAppended == IF sessAppended = {} THEN 0 ELSE CHOOSE e \in sessAppended : \A f \in sessAppended : f <= e
\* No message has been appended since the run in progress read the history.
NoAppendSinceRead == sumRead # <<>> /\ sumRead[Len(sumRead)] = LastAppended
\* The last four messages of a history of more than four.
LastFour(h) == <<h[Len(h) - 3], h[Len(h) - 2], h[Len(h) - 1], h[Len(h)]>>

\* C29: when a summarizeSession run that read more than 4 messages and obtained
\* a non-empty summary ends, and no message was appended since it read the
\* history, the session's summary is that text and its history is the last 4
\* messages the run read, in their order, in memory and as saved; a run that
\* finds 4 or fewer messages returns and leaves the session as it is.
C29_SummarizationOutcome ==
    /\ [][(sumPc = "save" /\ sumPc' = "idle" /\ NoAppendSinceRead) =>
             /\ Len(sumRead) > KeepLast
             /\ sumFinal.text
             /\ sessSummary' = sumFinal
             /\ sessHistory' = LastFour(sumRead)
             /\ sessPersisted' = [history |-> LastFour(sumRead), summary |-> sumFinal]]_vars
    /\ [][(sumPc = "start" /\ sumPc' # "start" /\ Len(sessHistory) <= KeepLast) =>
             (sumPc' = "idle" /\ UNCHANGED sessVars)]_vars
\* A run that read six messages has set the summary and truncated the history,
\* and nothing was appended meanwhile.
C29_Witness ==
    /\ sumPc = "save"
    /\ NoAppendSinceRead
    /\ Len(sumRead) = 6
    /\ sessHistory = LastFour(sumRead)
    /\ sessSummary = sumFinal
\* A run found no more than four messages and returned.
ShortSessionRun == sumPc = "start" /\ Len(sessHistory) <= KeepLast

(***************************************************************************)
(* Claims about the tool loop of processMessage                            *)
(***************************************************************************)
\* The positions of the working list that hold an assistant message.
AssistantAt == {j \in 1..Len(tlMessages) : tlMessages[j].Role = "assistant"}
\* The nearest assistant message at or before position i (0: none).
RECURSIVE NearestAssistant(_)
NearestAssistant(i) ==
    IF i = 0 THEN 0
    ELSE IF tlMessages[i].Role = "assistant" THEN i
    ELSE NearestAssistant(i - 1)

\* C23: in the working message list, every role=tool message carries the id of a
\* tool call of the nearest preceding assistant message, and the tool calls of
\* every appended assistant message are followed by exactly one tool message
\* each, in the order of the calls.
C23_ToolResultLinkage ==
    /\ \A i \in 1..Len(tlMessages) :
          tlMessages[i].Role = "tool" =>
             LET a == NearestAssistant(i)
             IN /\ a # 0
                /\ \E k \in 1..Len(tlMessages[a].ToolCalls) :
                      tlMessages[a].ToolCalls[k] = tlMessages[i].ToolCallID
    /\ \A j \in AssistantAt :
          LET n == Len(tlMessages[j].ToolCalls)
          IN /\ j + n <= Len(tlMessages)
             /\ \A k \in 1..n : /\ tlMessages[j + k].Role = "tool"
                                /\ tlMessages[j + k].ToolCallID = tlMessages[j].ToolCalls[k]
             /\ j + n < Len(tlMessages) => tlMessages[j + n + 1].Role = "assistant"
\* Two assistant messages, the first with two tool calls and their two results.
C23_Witness ==
    /\ Len(tlMessages) >= 5
    /\ tlMessages[1].ToolCalls = <<"call_1", "call_2">>
    /\ tlMessages[3].ToolCallID = "call_2"
    /\ tlMessages[4].Role = "assistant"

\* Iteration k of the run executed tool calls and all of them failed.
AllCallsFailed(k) == tlLog[k].executed # <<>> /\ allFailed(tlLog[k].executed)
\* Iteration k of the run executed a tool call that succeeded.
SomeCallSucceeded(k) == \E i \in 1..Len(tlLog[k].executed) : tlLog[k].executed[i].ok

\* C24: an LLM call is made without tool definitions exactly when the three
\* iterations before it each had all of their tool calls fail; after an
\* iteration with a successful tool call consecutiveToolErrors is 0 and the
\* next LLM call is offered the tools.
C24_ToolErrorCounter ==
    /\ \A k \in 1..Len(tlLog) :
          ~tlLog[k].offered <=>
             (k > maxConsecutiveErrors
                 /\ \A j \in (k - maxConsecutiveErrors)..(k - 1) : AllCallsFailed(j))
    /\ \A k \in 1..Len(tlLog) :
          SomeCallSucceeded(k) =>
             /\ k = Len(tlLog) => tlToolErrors = 0
             /\ k < Len(tlLog) => tlLog[k + 1].offered
\* Three failing iterations, a call without tools whose tool call succeeds, and a
\* fifth call that is offered the tools again.
C24_Witness ==
    /\ Len(tlLog) = 5
    /\ ~tlLog[4].offered
    /\ SomeCallSucceeded(4)
    /\ tlLog[5].offered

\* C25: in an iteration whose LLM call was offered no tools, no tool is
\* executed, whatever the response carries, and the iteration ends the loop with
\* a text answer.
C25_ForcedAnswer ==
    \A k \in 1..Len(tlLog) :
       (~tlLog[k].offered /\ tlLog[k].chat = "ok") =>
          /\ tlLog[k].executed = <<>>
          /\ k = Len(tlLog)
          /\ tlPc = "done"
          /\ tlFinal = tlLog[k].content

\* Iteration k returned tool calls and empty text.
ToolOnlyAt(k) == tlLog[k].chat = "ok" /\ tlLog[k].calls # <<>> /\ tlLog[k].content = ""
\* The number of consecutive tool-only iterations that end with iteration k.
RECURSIVE ToolOnlyRun(_)
ToolOnlyRun(k) == IF k = 0 \/ ~ToolOnlyAt(k) THEN 0 ELSE 1 + ToolOnlyRun(k - 1)

\* C26: the loop never continues past 10 consecutive iterations with tool calls
\* and empty text: the 10th such iteration is the last one, it runs no tool, and
\* processMessage returns the canned difficulties message (the last assistant
\* text being empty); an iteration with tool calls and non-empty text resets
\* consecutiveToolOnly.
C26_ToolOnlyGuard ==
    /\ \A k \in 1..Len(tlLog) :
          ToolOnlyRun(k) >= maxConsecutiveToolOnly =>
             /\ k = Len(tlLog)
             /\ ToolOnlyRun(k) = maxConsecutiveToolOnly
             /\ tlLog[k].executed = <<>>
             /\ tlPc = "done"
             /\ Returned = Difficulties
    /\ (tlLog # <<>> /\ tlLog[Len(tlLog)].calls # <<>>) =>
          tlToolOnly = ToolOnlyRun(Len(tlLog))
    /\ (tlPc = "loop" /\ tlLog # <<>> /\ tlLog[Len(tlLog)].content # "") => tlToolOnly = 0
\* The guard fires at the 10th iteration of the run, and, in another run, at the
\* 11th after a first iteration with text.
C26_Witness ==
    /\ tlPc = "done"
    /\ tlFinal = Difficulties
    /\ Len(tlLog) = maxConsecutiveToolOnly + 1
    /\ tlLog[1].content # ""

\* C27: an iteration in which a tool call fails appends the assistant message
\* and, for every call of the response in order, one tool message: the error
\* text for a call that failed, the result for one that succeeded; the loop
\* goes on to its next iteration; and processMessage returns an error only
\* when an LLM call has failed.
C27_ToolErrorsDoNotAbort ==
    /\ [][(Len(tlLog') > Len(tlLog) /\ tlLog'[Len(tlLog')].executed # <<>>) =>
             LET calls == tlLog'[Len(tlLog')].calls
                 base == Len(tlMessages) + 1
             IN /\ tlPc' = "loop"
                /\ Len(tlMessages') = base + Len(calls)
                /\ tlMessages'[base].Role = "assistant"
                /\ \A i \in 1..Len(calls) :
                      /\ tlMessages'[base + i].Role = "tool"
                      /\ tlMessages'[base + i].ToolCallID = calls[i].ID
                      /\ tlMessages'[base + i].Content =
                            IF calls[i].ok THEN "result" ELSE "Error: tool failed"]_vars
    /\ [](tlPc = "error" <=> (tlLog # <<>> /\ tlLog[Len(tlLog)].chat = "error"))
\* A failing call followed by a succeeding one, both answered, and a next LLM call.
C27_Witness ==
    /\ Len(tlLog) >= 2
    /\ tlLog[1].executed = <<ToolCall("call_1", FALSE), ToolCall("call_2", TRUE)>>
    /\ tlMessages[2].Content = "Error: tool failed"
    /\ tlMessages[3].Content = "result"
    /\ tlLog[2].chat = "ok"

====
